---- MODULE Spec2Model ----
(***************************************************************************)
(* A model of the SRA metadata pipeline of src/src/preprocessing.py:       *)
(* the archive walk (SRAFileParser.iter_sra), the per-group filter          *)
(* (iterparse_sra), the field extractors, the aggregator                   *)
(* (aggregate_results) and the formatter (format_study_data).              *)
(*                                                                         *)
(* Specifications: SpecWalk (the walk over the tar members), SpecPipe      *)
(* (iterparse_sra over the pairs of the walk, and its consumer), SpecAgg   *)
(* (tables filled, then aggregated), SpecOrder (two sets of tables filled  *)
(* in different orders), SpecExtract (an extractor over its document).     *)
(*                                                                         *)
(* Python values are modelled as follows.                                  *)
(*   - None is the empty tuple <<>>, a value v that may be None is <<v>>.   *)
(*   - A dict (insertion ordered) is a sequence of <<key, value>> pairs     *)
(*     with pairwise distinct keys; a Counter is a dict of counts.          *)
(*   - A file name is the sequence of its dot-separated segments.          *)
(***************************************************************************)
EXTENDS Integers, Sequences, FiniteSets, TLC

VARIABLES
    archive,      \* iter_sra: the tar members read so far (history of the stream)
    files,        \* iter_sra: local `files`, the open bundle
    last_sra_id,  \* iter_sra: local `last_sra_id`
    emitted,      \* iter_sra: the pairs yielded so far
    walk,         \* iter_sra: "running", "done" (generator exhausted), "aborted"
                  \* (an exception left the generator) or "closed" (the consumer
                  \* closed the generator)
    suspended,    \* iter_sra: the yield the generator is suspended at, its pair in the
                  \* consumer's hands: "no", "line 86" or "line 99"
    groups,       \* iterparse_sra: the pairs taken from iter_sra so far
    parses,       \* iterparse_sra: the extractor calls made, <<number of the group, document type>>
    records,      \* iterparse_sra: the records yielded so far
    pipe,         \* iterparse_sra: "running", "done", "failed" (an exception left the
                  \* generator), "abandoned" (the consumer asks for no more records
                  \* and keeps the generator) or "stopped" (the consumer closed or
                  \* dropped the generator)
    handle,       \* iter_sra: the archive opened at line 80: "unopened", "open" or "closed"
    tables,       \* an extractor's local `data`: the dict of Counters it is filling
    added,        \* the <<field, value>> occurrences counted into `data` so far, in order
    thresholds,   \* aggregate_results: the arguments min_samples and min_count
    aggregated,   \* aggregate_results: None before the call, Some(the summary returned) after it
    permuted,     \* a second `data`, filled with the same occurrences in another order
    pending,      \* the occurrences counted into `tables` and not yet into `permuted`
    permuted_summary,  \* aggregate_results on `permuted`: None, or Some(the summary)
    extractor,    \* the extractor that fills `tables`: "study" (parse_study_xml),
                  \* "sample", "experiment", or "none"
    seen,         \* an extractor: the STUDY, SAMPLE or EXPERIMENT elements read so far
    outcome       \* an extractor: "idle", "reading", "returned", or the exception raised

walkVars == <<archive, files, last_sra_id, emitted, walk, suspended>>

pipeVars == <<groups, parses, records, pipe, handle>>

orderVars == <<permuted, pending, permuted_summary>>

extractVars == <<extractor, seen, outcome>>

aggVars == <<tables, added, thresholds, aggregated, orderVars, extractVars>>

vars == <<walkVars, pipeVars, aggVars>>

-----------------------------------------------------------------------------
(* Bounds *)

\* the longest archive (number of tar members) the walk is fed
MaxEntries == 5

-----------------------------------------------------------------------------
(* Program constants *)

\* aggregate_results: the default value of min_samples
DefaultMinSamples == 10

\* aggregate_results: the default value of min_count
DefaultMinCount == 3

-----------------------------------------------------------------------------
(* Python values *)

None == <<>>

Some(v) == <<v>>

\* dict: `k in d`
DictHas(d, k) == \E i \in 1..Len(d) : d[i][1] = k

\* dict: `d[k]` for a key that is present
DictGet(d, k) == d[CHOOSE i \in 1..Len(d) : d[i][1] = k][2]

\* dict: `d[k] = v`; an existing key keeps its position, a new key goes last
DictSet(d, k, v) ==
    IF DictHas(d, k)
    THEN [i \in 1..Len(d) |-> IF d[i][1] = k THEN <<k, v>> ELSE d[i]]
    ELSE Append(d, <<k, v>>)

\* dict: the keys, in iteration order
DictKeys(d) == [i \in 1..Len(d) |-> d[i][1]]

\* dict: the set of keys
DictKeySet(d) == {d[i][1] : i \in 1..Len(d)}

\* dict: `d.pop(k, ...)`: the dict without key k
DictPop(d, k) == SelectSeq(d, LAMBDA kv : kv[1] # k)

\* str(v), f"{v}": None prints as "None"
Str(v) == IF v = None THEN "None" ELSE v[1]

\* sep.join(strs)
RECURSIVE Join(_, _)
Join(strs, sep) ==
    IF strs = <<>> THEN ""
    ELSE IF Len(strs) = 1 THEN strs[1]
    ELSE strs[1] \o sep \o Join(Tail(strs), sep)

(* str.upper() and str.lower(), as CPython 3.11 (Unicode 14.0) computes     *)
(* them, on the characters a string of the model can hold.  A character     *)
(* whose upper or lower case holds a character outside of these has no      *)
(* value in the model.                                                      *)

\* the characters str.lower() changes
LowerFrom ==
       "ABCDEFGHIJKLMNOPQRSTUVWXYZÀÁÂÃÄÅÆÇÈÉÊËÌÍÎÏÐÑÒÓÔÕ"
    \o "ÖØÙÚÛÜÝÞƂƄƇƋƎƑƘƠƢƤƦƧƩƬƮƯƱƲƳƵƷƸƼǄǅǇǈǊǋǍǏǑǓǕǗǙǛǞǠǢ"
    \o "ǤǦǨǪǬǮǱǲǴǶǷǸǺǼǾΆΈΉΊΌΎΏΑΒΓΔΕΖΗΘΙΚΛΜΝΞΟΠΡΣΤΥΦΧΨΩΪΫ"
    \o "ϏϘϚϜϞϠϢϤϦϨϪϬϮϴϷϹϺҀҊҌҎҐҒҔҖҘҚҜҞҠҢҤҦҨҪҬҮҰҲҴҶҸҺҼҾӀӁӃ"
    \o "ӅӇӉӋӍӐӒӔӖӘӚӜӞӠӢӤӦӨӪӬӮӰӲӴӶӸӺӼӾᎰᎱᎲᎳᎴᎵᎶᎷᎸᎹᎺᎻᎼᎽᎾᎿᏀᏁᏂ"
    \o "ᏃᏄᏅᏆᏇᏈᏉᏊᏋᏌᏍᏎᏏᏐᏑᏒᏓᏔᏕᏖᏗᏘᏙᏚᏛᏜᏝᏞᏟᏠᏡᏢᏣᏤᏥᏦᏧᏨᏩᏪᏫᏬᏭᏮᏯᏰᏱᏲ"
    \o "ᏳᏴᏵᲐᲑᲒᲓᲔᲕᲖᲗᲘᲙᲚᲛᲜᲝᲞᲟᲠᲡᲢᲣᲤᲥᲦᲧᲨᲩᲪᲫᲬᲭᲮᲯᲰᲱᲲᲳᲴᲵᲶᲷᲸᲹᲺᲽᲾ"
    \o "ᲿẀẂẄẆẈẊẌẎẐẒẔẞẠẢẤẦẨẪẬẮẰẲẴẶẸẺẼẾỀỂỄỆỈỊỌỎỐỒỔỖỘỚỜỞỠỢỤ"
    \o "ỦỨỪỬỮỰỲỴỶỸỺỼỾᾈᾉᾊᾋᾌᾍᾎᾏᾘᾙᾚᾛᾜᾝᾞᾟᾨᾩᾪᾫᾬᾭᾮᾯᾸᾹᾼῌῘῙῨῩῬῼↃ"
    \o "ⒶⒷⒸⒹⒺⒻⒼⒽⒾⒿⓀⓁⓂⓃⓄⓅⓆⓇⓈⓉⓊⓋⓌⓍⓎⓏⲀⲂⲄⲆⲈⲊⲌⲎⲐⲒⲔⲖⲘⲚⲜⲞⲠⲢⲤⲦⲨⲪ"
    \o "ⲬⲮⲰⲲⲴⲶⲸⲺⲼⲾⳀⳂⳄⳆⳈⳊⳌⳎⳐⳒⳔⳖⳘⳚⳜⳞⳠⳢⳫⳭⳲꚀꚂꚄꚆꚈꚊꚌꚎꚐꚒꚔꚖꚘꚚꞀꞂꞄ"
    \o "ꞆꞋꞐꞒꞖꞘꞚꞜꞞꞠꞢꞤꞦꞨꞰꞱꞲꞴꞶꞸꞺꞼꞾꟀꟂꟄꟅꟆꟇꟉꟐꟖꟘꟵ"

\* what str.lower() makes of each character of LowerFrom, position by position
LowerTo ==
       "abcdefghijklmnopqrstuvwxyzàáâãäåæçèéêëìíîïðñòóôõ"
    \o "öøùúûüýþƃƅƈƌǝƒƙơƣƥʀƨʃƭʈưʊʋƴƶʒƹƽǆǆǉǉǌǌǎǐǒǔǖǘǚǜǟǡǣ"
    \o "ǥǧǩǫǭǯǳǳǵƕƿǹǻǽǿάέήίόύώαβγδεζηθικλμνξοπρστυφχψωϊϋ"
    \o "ϗϙϛϝϟϡϣϥϧϩϫϭϯθϸϲϻҁҋҍҏґғҕҗҙқҝҟҡңҥҧҩҫҭүұҳҵҷҹһҽҿӏӂӄ"
    \o "ӆӈӊӌӎӑӓӕӗәӛӝӟӡӣӥӧөӫӭӯӱӳӵӷӹӻӽӿꮀꮁꮂꮃꮄꮅꮆꮇꮈꮉꮊꮋꮌꮍꮎꮏꮐꮑꮒ"
    \o "ꮓꮔꮕꮖꮗꮘꮙꮚꮛꮜꮝꮞꮟꮠꮡꮢꮣꮤꮥꮦꮧꮨꮩꮪꮫꮬꮭꮮꮯꮰꮱꮲꮳꮴꮵꮶꮷꮸꮹꮺꮻꮼꮽꮾꮿᏸᏹᏺ"
    \o "ᏻᏼᏽაბგდევზთიკლმნოპჟრსტუფქღყშჩცძწჭხჯჰჱჲჳჴჵჶჷჸჹჺჽჾ"
    \o "ჿẁẃẅẇẉẋẍẏẑẓẕßạảấầẩẫậắằẳẵặẹẻẽếềểễệỉịọỏốồổỗộớờởỡợụ"
    \o "ủứừửữựỳỵỷỹỻỽỿᾀᾁᾂᾃᾄᾅᾆᾇᾐᾑᾒᾓᾔᾕᾖᾗᾠᾡᾢᾣᾤᾥᾦᾧᾰᾱᾳῃῐῑῠῡῥῳↄ"
    \o "ⓐⓑⓒⓓⓔⓕⓖⓗⓘⓙⓚⓛⓜⓝⓞⓟⓠⓡⓢⓣⓤⓥⓦⓧⓨⓩⲁⲃⲅⲇⲉⲋⲍⲏⲑⲓⲕⲗⲙⲛⲝⲟⲡⲣⲥⲧⲩⲫ"
    \o "ⲭⲯⲱⲳⲵⲷⲹⲻⲽⲿⳁⳃⳅⳇⳉⳋⳍⳏⳑⳓⳕⳗⳙⳛⳝⳟⳡⳣⳬⳮⳳꚁꚃꚅꚇꚉꚋꚍꚏꚑꚓꚕꚗꚙꚛꞁꞃꞅ"
    \o "ꞇꞌꞑꞓꞗꞙꞛꞝꞟꞡꞣꞥꞧꞩʞʇʝꞵꞷꞹꞻꞽꞿꟁꟃꞔʂᶎꟈꟊꟑꟗꟙꟶ"

\* the characters whose lower case no string of the model can hold
LowerOutside ==
       "ƁƆƉƊƏƐƓƔƖƗƜƝƟϽϾϿႠႡႢႣႤႥႦႧႨႩႪႫႬႭႮႯႰႱႲႳႴႵႶႷႸႹႺႻႼႽႾႿ"
    \o "ჀჁჂჃჄჅჇჍᎠᎡᎢᎣᎤᎥᎦᎧᎨᎩᎪᎫᎬᎭᎮᎯᾺΆῈΈῊΉῚΊῪΎῸΌῺΏꞍꞪꞫꞬꞭꞮꞳ"

\* the characters str.upper() changes into one character
UpperFrom ==
       "abcdefghijklmnopqrstuvwxyzµàáâãäåæçèéêëìíîïðñòóô"
    \o "õöøùúûüýþƃƅƈƌƒƕƙơƣƥƨƭưƴƶƹƽƿǅǆǈǉǋǌǎǐǒǔǖǘǚǜǝǟǡǣǥǧǩ"
    \o "ǫǭǯǲǳǵǹǻǽǿʀʂʃʇʈʊʋʒʝʞάέήίαβγδεζηθικλμνξοπρςστυφχψ"
    \o "ωϊϋόύώϐϑϕϖϗϙϛϝϟϡϣϥϧϩϫϭϯϰϱϲϵϸϻҁҋҍҏґғҕҗҙқҝҟҡңҥҧҩҫҭ"
    \o "үұҳҵҷҹһҽҿӂӄӆӈӊӌӎӏӑӓӕӗәӛӝӟӡӣӥӧөӫӭӯӱӳӵӷӹӻӽӿაბგდევზ"
    \o "თიკლმნოპჟრსტუფქღყშჩცძწჭხჯჰჱჲჳჴჵჶჷჸჹჺჽჾჿᏸᏹᏺᏻᏼᏽᶎẁẃ"
    \o "ẅẇẉẋẍẏẑẓẕạảấầẩẫậắằẳẵặẹẻẽếềểễệỉịọỏốồổỗộớờởỡợụủứừử"
    \o "ữựỳỵỷỹỻỽỿᾰᾱιῐῑῠῡῥↄⓐⓑⓒⓓⓔⓕⓖⓗⓘⓙⓚⓛⓜⓝⓞⓟⓠⓡⓢⓣⓤⓥⓦⓧⓨⓩⲁⲃⲅⲇ"
    \o "ⲉⲋⲍⲏⲑⲓⲕⲗⲙⲛⲝⲟⲡⲣⲥⲧⲩⲫⲭⲯⲱⲳⲵⲷⲹⲻⲽⲿⳁⳃⳅⳇⳉⳋⳍⳏⳑⳓⳕⳗⳙⳛⳝⳟⳡⳣⳬⳮ"
    \o "ⳳꚁꚃꚅꚇꚉꚋꚍꚏꚑꚓꚕꚗꚙꚛꞁꞃꞅꞇꞌꞑꞓꞔꞗꞙꞛꞝꞟꞡꞣꞥꞧꞩꞵꞷꞹꞻꞽꞿꟁꟃꟈꟊꟑꟗꟙꟶꮀ"
    \o "ꮁꮂꮃꮄꮅꮆꮇꮈꮉꮊꮋꮌꮍꮎꮏꮐꮑꮒꮓꮔꮕꮖꮗꮘꮙꮚꮛꮜꮝꮞꮟꮠꮡꮢꮣꮤꮥꮦꮧꮨꮩꮪꮫꮬꮭꮮꮯꮰ"
    \o "ꮱꮲꮳꮴꮵꮶꮷꮸꮹꮺꮻꮼꮽꮾꮿ"

\* what str.upper() makes of each character of UpperFrom, position by position
UpperTo ==
       "ABCDEFGHIJKLMNOPQRSTUVWXYZΜÀÁÂÃÄÅÆÇÈÉÊËÌÍÎÏÐÑÒÓÔ"
    \o "ÕÖØÙÚÛÜÝÞƂƄƇƋƑǶƘƠƢƤƧƬƯƳƵƸƼǷǄǄǇǇǊǊǍǏǑǓǕǗǙǛƎǞǠǢǤǦǨ"
    \o "ǪǬǮǱǱǴǸǺǼǾƦꟅƩꞱƮƱƲƷꞲꞰΆΈΉΊΑΒΓΔΕΖΗΘΙΚΛΜΝΞΟΠΡΣΣΤΥΦΧΨ"
    \o "ΩΪΫΌΎΏΒΘΦΠϏϘϚϜϞϠϢϤϦϨϪϬϮΚΡϹΕϷϺҀҊҌҎҐҒҔҖҘҚҜҞҠҢҤҦҨҪҬ"
    \o "ҮҰҲҴҶҸҺҼҾӁӃӅӇӉӋӍӀӐӒӔӖӘӚӜӞӠӢӤӦӨӪӬӮӰӲӴӶӸӺӼӾᲐᲑᲒᲓᲔᲕᲖ"
    \o "ᲗᲘᲙᲚᲛᲜᲝᲞᲟᲠᲡᲢᲣᲤᲥᲦᲧᲨᲩᲪᲫᲬᲭᲮᲯᲰᲱᲲᲳᲴᲵᲶᲷᲸᲹᲺᲽᲾᲿᏰᏱᏲᏳᏴᏵꟆẀẂ"
    \o "ẄẆẈẊẌẎẐẒẔẠẢẤẦẨẪẬẮẰẲẴẶẸẺẼẾỀỂỄỆỈỊỌỎỐỒỔỖỘỚỜỞỠỢỤỦỨỪỬ"
    \o "ỮỰỲỴỶỸỺỼỾᾸᾹΙῘῙῨῩῬↃⒶⒷⒸⒹⒺⒻⒼⒽⒾⒿⓀⓁⓂⓃⓄⓅⓆⓇⓈⓉⓊⓋⓌⓍⓎⓏⲀⲂⲄⲆ"
    \o "ⲈⲊⲌⲎⲐⲒⲔⲖⲘⲚⲜⲞⲠⲢⲤⲦⲨⲪⲬⲮⲰⲲⲴⲶⲸⲺⲼⲾⳀⳂⳄⳆⳈⳊⳌⳎⳐⳒⳔⳖⳘⳚⳜⳞⳠⳢⳫⳭ"
    \o "ⳲꚀꚂꚄꚆꚈꚊꚌꚎꚐꚒꚔꚖꚘꚚꞀꞂꞄꞆꞋꞐꞒꟄꞖꞘꞚꞜꞞꞠꞢꞤꞦꞨꞴꞶꞸꞺꞼꞾꟀꟂꟇꟉꟐꟖꟘꟵᎰ"
    \o "ᎱᎲᎳᎴᎵᎶᎷᎸᎹᎺᎻᎼᎽᎾᎿᏀᏁᏂᏃᏄᏅᏆᏇᏈᏉᏊᏋᏌᏍᏎᏏᏐᏑᏒᏓᏔᏕᏖᏗᏘᏙᏚᏛᏜᏝᏞᏟᏠ"
    \o "ᏡᏢᏣᏤᏥᏦᏧᏨᏩᏪᏫᏬᏭᏮᏯ"

\* the characters str.upper() changes into two
UpperExpansions ==
    [c \in {"ß", "ẚ", "ᾲ", "ᾳ", "ᾴ", "ᾼ", "ῂ", "ῃ", "ῄ", "ῌ", "ῲ", "ῳ", "ῴ", "ῼ"} |->
        CASE c = "ß" -> "SS"
          [] c = "ẚ" -> "Aʾ"
          [] c = "ᾲ" -> "ᾺΙ"
          [] c = "ᾳ" -> "ΑΙ"
          [] c = "ᾴ" -> "ΆΙ"
          [] c = "ᾼ" -> "ΑΙ"
          [] c = "ῂ" -> "ῊΙ"
          [] c = "ῃ" -> "ΗΙ"
          [] c = "ῄ" -> "ΉΙ"
          [] c = "ῌ" -> "ΗΙ"
          [] c = "ῲ" -> "ῺΙ"
          [] c = "ῳ" -> "ΩΙ"
          [] c = "ῴ" -> "ΏΙ"
          [] c = "ῼ" -> "ΩΙ"]

\* the characters whose upper case no string of the model can hold
UpperOutside ==
       "ÿƀƚƞǰʉʌΐΰϳրցւփքօֆևᲀᲁᲂᲃᲄᲅᲆᲇᲈẖẗẘẙẛᾀᾁᾂᾃᾄᾅᾆᾇᾈᾉᾊᾋᾌᾍᾎᾏ"
    \o "ᾐᾑᾒᾓᾔᾕᾖᾗᾘᾙᾚᾛᾜᾝᾞᾟᾠᾡᾢᾣᾤᾥᾦᾧᾨᾩᾪᾫᾬᾭᾮᾯᾶᾷῆῇῒΐῖῗῢΰῤῦῧῶῷ"

\* the cased characters (lower case, upper case or title case)
Cased ==
       "ABCDEFGHIJKLMNOPQRSTUVWXYZabcdefghijklmnopqrstuv"
    \o "wxyzªµºÀÁÂÃÄÅÆÇÈÉÊËÌÍÎÏÐÑÒÓÔÕÖØÙÚÛÜÝÞßàáâãäåæçèé"
    \o "êëìíîïðñòóôõöøùúûüýþÿƀƁƂƃƄƅƆƇƈƉƊƋƌƍƎƏƐƑƒƓƔƕƖƗƘƙƚ"
    \o "ƛƜƝƞƟƠơƢƣƤƥƦƧƨƩƪƫƬƭƮƯưƱƲƳƴƵƶƷƸƹƺƼƽƾƿǄǅǆǇǈǉǊǋǌǍǎǏ"
    \o "ǐǑǒǓǔǕǖǗǘǙǚǛǜǝǞǟǠǡǢǣǤǥǦǧǨǩǪǫǬǭǮǯǰǱǲǳǴǵǶǷǸǹǺǻǼǽǾǿ"
    \o "ʀʁʂʃʄʅʆʇʈʉʊʋʌʍʎʏʐʑʒʓʕʖʗʘʙʚʛʜʝʞʟʠʡʢʣʤʥʦʧʨʩʪʫʬʭʮʯʰ"
    \o "ʱʲʳʴʵʶʷʸˀˁˠˡˢˣˤΆΈΉΊΌΎΏΐΑΒΓΔΕΖΗΘΙΚΛΜΝΞΟΠΡΣΤΥΦΧΨΩΪ"
    \o "ΫάέήίΰαβγδεζηθικλμνξοπρςστυφχψωϊϋόύώϏϐϑϒϓϔϕϖϗϘϙϚ"
    \o "ϛϜϝϞϟϠϡϢϣϤϥϦϧϨϩϪϫϬϭϮϯϰϱϲϳϴϵϷϸϹϺϻϼϽϾϿҀҁҊҋҌҍҎҏҐґҒғ"
    \o "ҔҕҖҗҘҙҚқҜҝҞҟҠҡҢңҤҥҦҧҨҩҪҫҬҭҮүҰұҲҳҴҵҶҷҸҹҺһҼҽҾҿӀӁӂӃ"
    \o "ӄӅӆӇӈӉӊӋӌӍӎӏӐӑӒӓӔӕӖӗӘәӚӛӜӝӞӟӠӡӢӣӤӥӦӧӨөӪӫӬӭӮӯӰӱӲӳ"
    \o "ӴӵӶӷӸӹӺӻӼӽӾӿրցւփքօֆևֈႠႡႢႣႤႥႦႧႨႩႪႫႬႭႮႯႰႱႲႳႴႵႶႷႸႹႺ"
    \o "ႻႼႽႾႿჀჁჂჃჄჅჇჍაბგდევზთიკლმნოპჟრსტუფქღყშჩცძწჭხჯჰჱჲ"
    \o "ჳჴჵჶჷჸჹჺჽჾჿᎠᎡᎢᎣᎤᎥᎦᎧᎨᎩᎪᎫᎬᎭᎮᎯᎰᎱᎲᎳᎴᎵᎶᎷᎸᎹᎺᎻᎼᎽᎾᎿᏀᏁᏂᏃᏄ"
    \o "ᏅᏆᏇᏈᏉᏊᏋᏌᏍᏎᏏᏐᏑᏒᏓᏔᏕᏖᏗᏘᏙᏚᏛᏜᏝᏞᏟᏠᏡᏢᏣᏤᏥᏦᏧᏨᏩᏪᏫᏬᏭᏮᏯᏰᏱᏲᏳᏴ"
    \o "ᏵᏸᏹᏺᏻᏼᏽᲀᲁᲂᲃᲄᲅᲆᲇᲈᲐᲑᲒᲓᲔᲕᲖᲗᲘᲙᲚᲛᲜᲝᲞᲟᲠᲡᲢᲣᲤᲥᲦᲧᲨᲩᲪᲫᲬᲭᲮᲯ"
    \o "ᲰᲱᲲᲳᲴᲵᲶᲷᲸᲹᲺᲽᲾᲿᶀᶁᶂᶃᶄᶅᶆᶇᶈᶉᶊᶋᶌᶍᶎᶏᶐᶑᶒᶓᶔᶕᶖᶗᶘᶙᶚᶛᶜᶝᶞᶟᶠᶡ"
    \o "ᶢᶣᶤᶥᶦᶧᶨᶩᶪᶫᶬᶭᶮᶯᶰᶱᶲᶳᶴᶵᶶᶷᶸᶹᶺᶻᶼᶽᶾᶿẀẁẂẃẄẅẆẇẈẉẊẋẌẍẎẏẐẑ"
    \o "ẒẓẔẕẖẗẘẙẚẛẜẝẞẟẠạẢảẤấẦầẨẩẪẫẬậẮắẰằẲẳẴẵẶặẸẹẺẻẼẽẾếỀề"
    \o "ỂểỄễỆệỈỉỊịỌọỎỏỐốỒồỔổỖỗỘộỚớỜờỞởỠỡỢợỤụỦủỨứỪừỬửỮữỰự"
    \o "ỲỳỴỵỶỷỸỹỺỻỼỽỾỿᾀᾁᾂᾃᾄᾅᾆᾇᾈᾉᾊᾋᾌᾍᾎᾏᾐᾑᾒᾓᾔᾕᾖᾗᾘᾙᾚᾛᾜᾝᾞᾟᾠᾡ"
    \o "ᾢᾣᾤᾥᾦᾧᾨᾩᾪᾫᾬᾭᾮᾯᾰᾱᾲᾳᾴᾶᾷᾸᾹᾺΆᾼιῂῃῄῆῇῈΈῊΉῌῐῑῒΐῖῗῘῙῚΊῠ"
    \o "ῡῢΰῤῥῦῧῨῩῪΎῬῲῳῴῶῷῸΌῺΏῼₐₑₒₓₔₕₖₗₘₙₚₛₜↃↄⒶⒷⒸⒹⒺⒻⒼⒽⒾⒿⓀ"
    \o "ⓁⓂⓃⓄⓅⓆⓇⓈⓉⓊⓋⓌⓍⓎⓏⓐⓑⓒⓓⓔⓕⓖⓗⓘⓙⓚⓛⓜⓝⓞⓟⓠⓡⓢⓣⓤⓥⓦⓧⓨⓩⲀⲁⲂⲃⲄⲅⲆ"
    \o "ⲇⲈⲉⲊⲋⲌⲍⲎⲏⲐⲑⲒⲓⲔⲕⲖⲗⲘⲙⲚⲛⲜⲝⲞⲟⲠⲡⲢⲣⲤⲥⲦⲧⲨⲩⲪⲫⲬⲭⲮⲯⲰⲱⲲⲳⲴⲵⲶ"
    \o "ⲷⲸⲹⲺⲻⲼⲽⲾⲿⳀⳁⳂⳃⳄⳅⳆⳇⳈⳉⳊⳋⳌⳍⳎⳏⳐⳑⳒⳓⳔⳕⳖⳗⳘⳙⳚⳛⳜⳝⳞⳟⳠⳡⳢⳣⳤⳫⳬ"
    \o "ⳭⳮⳲⳳꚀꚁꚂꚃꚄꚅꚆꚇꚈꚉꚊꚋꚌꚍꚎꚏꚐꚑꚒꚓꚔꚕꚖꚗꚘꚙꚚꚛꚜꚝꞀꞁꞂꞃꞄꞅꞆꞇꞋꞌꞍꞎꞐꞑ"
    \o "ꞒꞓꞔꞕꞖꞗꞘꞙꞚꞛꞜꞝꞞꞟꞠꞡꞢꞣꞤꞥꞦꞧꞨꞩꞪꞫꞬꞭꞮꞯꞰꞱꞲꞳꞴꞵꞶꞷꞸꞹꞺꞻꞼꞽꞾꞿꟀꟁ"
    \o "ꟂꟃꟄꟅꟆꟇꟈꟉꟊꟐꟑꟓꟕꟖꟗꟘꟙꟵꟶꟸꟹꟺꮀꮁꮂꮃꮄꮅꮆꮇꮈꮉꮊꮋꮌꮍꮎꮏꮐꮑꮒꮓꮔꮕꮖꮗꮘꮙ"
    \o "ꮚꮛꮜꮝꮞꮟꮠꮡꮢꮣꮤꮥꮦꮧꮨꮩꮪꮫꮬꮭꮮꮯꮰꮱꮲꮳꮴꮵꮶꮷꮸꮹꮺꮻꮼꮽꮾꮿ"

\* the case-ignorable characters
CaseIgnorable ==
       "'.:^¨­¯´·¸ʰʱʲʳʴʵʶʷʸʹʺʻʼʽʾʿˀˁ˂˃˄˅ˆˇˈˉˊˋˌˍˎˏːˑ˒˓˔˕"
    \o "˖˗˘˙˚˛˜˝˞˟ˠˡˢˣˤ˥˦˧˨˩˪˫ˬ˭ˮ˯˰˱˲˳˴˵˶˷˸˹˺˻˼˽˾˿΄΅·҃҄҅"
    \o "҆҇҈҉ְֱֲֳִֵֶַָֹֺֻּ֑֖֛֢֣֤֥֦֧֪֚֭֮֒֓֔֕֗֘֙֜֝֞֟֠֡֨֩֫֬֯"
    \o "ׇֽֿׁׂׅׄ״ۖۗۘۙۚۛۜ۝ۣ۟۠ۡۢۤۥۦ۪ۭۧۨ۫۬ަާިީުޫެޭޮޯް߫߬߭߮߯߰߱"
    \o "߲߳ߴߵߺ߽࢈࢐࢑࢙࢚࢛࢘࢜࢝࢞࢟ࣉ࣏࣐࣑࣒࣓࣊࣋࣌࣍࣎ࣔࣕࣖࣗࣘࣙࣚࣛࣜࣝࣞࣟ࣠࣡࣢ࣣࣦࣤࣥࣧ"
    \o "ࣰࣱࣲࣩ࣭࣮࣯ࣶࣹࣺࣨ࣪࣫࣬ࣳࣴࣵࣷࣸࣻࣼࣽࣾࣿঁ়ুূৃৄ্ৢৣ৾ઁં઼ુૂૃૄૅેૈ્ૢૣૺ"
    \o "ૻૼ૽૾૿ஂீ்ಁ಼ಿೆೌ್ೢೣඁ්ිීුූັິີຶື຺ຸູົຼໆ່້໊໋໌ໍ྄ཱྀྀྂྃ྆྇ྍྎ"
    \o "ྏྐྑྒྒྷྔྕྖྗྙྚྛྜྜྷྞྟྠྡྡྷྣྤྥྦྦྷྨྩྪྫྫྷྭྮྯྰྱྲླྴྵྶྷྸྐྵྺྻྼ࿆ႂႅ"
    \o "ႆႍႝჼ឴឵ិីឹឺុូួំ៉៊់៌៍៎៏័៑្៓ៗ៝ᢅᢆᢩᪧ᪵᪶᪷᪸᪹᪺᪽᪰᪱᪲᪳᪴᪻᪼᪾ᪿᫀ"
    \o "᫃᫄᫊᫁᫂᫅᫆᫇᫈᫉᫋ᫌᫍᫎᮀᮁᮢᮣᮤᮥᮨᮩ᮫ᮬᮭ᯦ᯨᯩᯭᯯᯰᯱ᳔᳕᳖᳗᳘᳙᳜᳝᳞᳟᳐᳑᳒᳚᳛᳠"
    \o "᳢᳣᳤᳥᳦᳧᳨᳭᳴᳸᳹ᶛᶜᶝᶞᶟᶠᶡᶢᶣᶤᶥᶦᶧᶨᶩᶪᶫᶬᶭᶮᶯᶰᶱᶲᶳᶴᶵᶶᶷᶸᶹᶺᶻᶼᶽᶾᶿ"
    \o "᷐᷎᷂᷊᷏᷀᷁᷃᷄᷅᷆᷇᷈᷉᷋᷌᷑᷒ᷓᷔᷕᷖᷗᷘᷙᷚᷛᷜᷝᷞᷟᷠᷡᷢᷣᷤᷥᷦᷧᷨᷩᷪᷫᷬᷭᷮᷯ᷍"
    \o "᷺᷹᷽᷿᷷᷸ᷰᷱᷲᷳᷴ᷵᷻᷾᷶᷼᾽᾿῀῁῍῎῏῝῞῟῭΅`´῾ₐₑₒₓₔₕₖₗₘₙₚₛₜ⃒⃓⃐⃑"
    \o "⃘⃙⃚⃔⃕⃖⃗⃛⃜⃝⃞⃟⃠⃡⃢⃣⃤⃥⃦⃪⃫⃨⃬⃭⃮⃯⃧⃩⃰⳯⳰⳱ⷠⷡⷢⷣⷤⷥⷦⷧⷨⷩⷪⷫⷬⷭⷮⷯ"
    \o "゙゚ⷰⷱⷲⷳⷴⷵⷶⷷⷸⷹⷺⷻⷼⷽⷾⷿ゛゜ゝゞーヽヾꓸꓹꓺꓻꓼꓽꚜꚝꚞꚟ꛰꛱ꞈ꞉꞊ꟲꟳꟴꟸꟹ꣄ꣅ꣠"
    \o "꣡꣢꣣꣤꣥꣦꣧꣨꣩꣪꣫꣬꣭꣮꣯꣰꣱ꣿꦀꦁꦂ꦳ꦶꦷꦸꦹꦼꦽꧏꧥꧦꪴꪰꪲꪳꪷꪸꪾ꪿꫁ꫝꫬꫭꫳꫴ꫶ꯥꯨ"
    \o "꯭﮲﮳﮴﮵﮶﮷﮸﮹﮺﮻﮼﮽﮾﮿﯀﯁﯂﻿ﾞﾟ￣￹￺￻"

\* the characters of a string
Chars(s) == {SubSeq(s, i, i) : i \in 1..Len(s)}

\* the table that takes each character of `from` to the character of `to`
\* at the same position
CharMap(from, to) ==
    [c \in Chars(from) |->
        LET i == CHOOSE j \in 1..Len(from) : SubSeq(from, j, j) = c
        IN  SubSeq(to, i, i)]

UpperMap == CharMap(UpperFrom, UpperTo)

LowerMap == CharMap(LowerFrom, LowerTo)

UpperOutsideSet == Chars(UpperOutside)

LowerOutsideSet == Chars(LowerOutside)

CasedSet == Chars(Cased)

CaseIgnorableSet == Chars(CaseIgnorable)

\* no value: the result is outside the strings of the model
NoValue == CHOOSE x \in {} : TRUE

\* str.upper() of one character
UpperChar(c) ==
    IF c \in DOMAIN UpperMap THEN UpperMap[c]
    ELSE IF c \in DOMAIN UpperExpansions THEN UpperExpansions[c]
    ELSE IF c \in UpperOutsideSet THEN NoValue
    ELSE c

\* str.upper(): character by character (the string is halved, so that long
\* strings do not nest deeply)
RECURSIVE Upper(_)
Upper(s) ==
    IF s = "" THEN ""
    ELSE IF Len(s) = 1 THEN UpperChar(s)
    ELSE Upper(SubSeq(s, 1, Len(s) \div 2)) \o Upper(SubSeq(s, Len(s) \div 2 + 1, Len(s)))

\* the capital sigma at position i of s is in final position: the nearest
\* character before it that is not case-ignorable is cased, and the nearest
\* one after it that is not case-ignorable, if any, is not
FinalSigma(s, i) ==
    LET before == {j \in 1..(i - 1) : SubSeq(s, j, j) \notin CaseIgnorableSet}
        after == {j \in (i + 1)..Len(s) : SubSeq(s, j, j) \notin CaseIgnorableSet}
        last == CHOOSE j \in before : \A k \in before : k <= j
        first == CHOOSE j \in after : \A k \in after : j <= k
    IN  /\ before # {}
        /\ SubSeq(s, last, last) \in CasedSet
        /\ after = {} \/ SubSeq(s, first, first) \notin CasedSet

\* str.lower() of the character at position i of s
LowerAt(s, i) ==
    LET c == SubSeq(s, i, i)
    IN  IF c = "Σ" THEN (IF FinalSigma(s, i) THEN "ς" ELSE "σ")
        ELSE IF c \in DOMAIN LowerMap THEN LowerMap[c]
        ELSE IF c \in LowerOutsideSet THEN NoValue
        ELSE c

\* str.lower() of the characters a..b of s
RECURSIVE LowerRange(_, _, _)
LowerRange(s, a, b) ==
    IF a > b THEN ""
    ELSE IF a = b THEN LowerAt(s, a)
    ELSE LowerRange(s, a, (a + b) \div 2) \o LowerRange(s, (a + b) \div 2 + 1, b)

\* str.lower()
Lower(s) == LowerRange(s, 1, Len(s))

-----------------------------------------------------------------------------
(* SRAFileType *)

\* the names of the members of the enum SRAFileType
SRAFileTypeNames == {"SUBMISSION", "STUDY", "SAMPLE", "EXPERIMENT", "RUN", "ANALYSIS"}

\* Path(filename).stem.split('.'): the segments of the name without its last
\* suffix; a name whose only dot is the leading one, or that ends in a dot,
\* has no suffix to drop
StemSegments(segs) ==
    IF Len(segs) >= 2 /\ segs[Len(segs)] # "" /\ ~(Len(segs) = 2 /\ segs[1] = "")
    THEN SubSeq(segs, 1, Len(segs) - 1)
    ELSE segs

\* SRAFileType.extract: the enum member named by the upper-cased last
\* dot-segment of the stem, None (after a diagnostic) when there is none
extract(segs) ==
    LET stem == StemSegments(segs)
        suffix == Upper(stem[Len(stem)])
    IN  IF suffix \in SRAFileTypeNames THEN Some(suffix) ELSE None

-----------------------------------------------------------------------------
(* Tar members *)

\* member.name.endswith(".xml")
EndsWithXml(segs) == Len(segs) >= 2 /\ segs[Len(segs)] = "xml"

GroupNames == {"SRP1", "SRP2"}

FileNames ==
    { <<"x", "study", "xml">>,      \* recognized
      <<"x", "SAMPLE", "xml">>,     \* recognized, upper case
      <<"x", "notes", "xml">>,      \* XML member of an unknown type
      <<"x", "study", "txt">> }     \* not an XML member

\* a directory member: Path(member.name).name is `name`
DirEntry(n) == [isdir |-> TRUE, name |-> n, parent |-> "", segs |-> <<>>]

\* a file member: Path(member.name).parent.name is `parent`, the file name is `segs`
FileEntry(p, s) == [isdir |-> FALSE, name |-> "", parent |-> p, segs |-> s]

DirEntries == {DirEntry(n) : n \in GroupNames}

FileEntries == {FileEntry(p, s) : p \in GroupNames, s \in FileNames}

-----------------------------------------------------------------------------
(* SRAFileParser.iter_sra *)

\* mutant of Truthy: the bundle is yielded without the `if files` test
Truthy_Always(fs) == TRUE

\* `if files:`
Truthy(fs) == fs # <<>>

\* the loop body for a directory member, up to the yield of line 86 if the
\* open bundle is not empty (the generator is then suspended there, the pair
\* in the consumer's hands), and to its end if it is
ReadDir(e) ==
    /\ walk = "running" /\ suspended = "no"
    /\ Len(archive) < MaxEntries
    /\ e.isdir
    /\ archive' = Append(archive, e)
    /\ IF Truthy(files)
       THEN /\ emitted' = Append(emitted, <<last_sra_id, files>>)
            /\ suspended' = "line 86"
            /\ UNCHANGED <<last_sra_id, files>>
       ELSE /\ last_sra_id' = Some(e.name)
            /\ files' = <<>>
            /\ UNCHANGED <<emitted, suspended>>
    /\ UNCHANGED walk
    /\ UNCHANGED <<pipeVars, aggVars>>

\* the consumer asks for the next pair: the generator resumes after the
\* yield of line 86 and opens the group of the directory member it has read
ResumeDir ==
    /\ walk = "running" /\ suspended = "line 86"
    /\ last_sra_id' = Some(archive[Len(archive)].name)
    /\ files' = <<>>
    /\ suspended' = "no"
    /\ UNCHANGED <<archive, emitted, walk>>
    /\ UNCHANGED <<pipeVars, aggVars>>

\* mutant of ReadXml: the KeyError of an unknown suffix is not caught
ReadXml_KeyErrorEscapes(e) ==
    /\ walk = "running" /\ suspended = "no"
    /\ Len(archive) < MaxEntries
    /\ ~e.isdir
    /\ EndsWithXml(e.segs)
    /\ archive' = Append(archive, e)
    /\ IF Some(e.parent) # last_sra_id \/ extract(e.segs) = None
       THEN /\ walk' = "aborted"
            /\ UNCHANGED <<files, last_sra_id, emitted, suspended>>
       ELSE /\ files' = DictSet(files, Lower(extract(e.segs)[1]), e.segs)
            /\ UNCHANGED <<last_sra_id, emitted, walk, suspended>>
    /\ UNCHANGED <<pipeVars, aggVars>>

\* the loop body for a member whose name ends in ".xml"
ReadXml(e) ==
    /\ walk = "running" /\ suspended = "no"
    /\ Len(archive) < MaxEntries
    /\ ~e.isdir
    /\ EndsWithXml(e.segs)
    /\ archive' = Append(archive, e)
    /\ IF Some(e.parent) # last_sra_id
       THEN \* the assert fails: the generator dies with AssertionError
            /\ walk' = "aborted"
            /\ UNCHANGED <<files, last_sra_id, emitted, suspended>>
       ELSE /\ files' = IF extract(e.segs) # None
                        THEN DictSet(files, Lower(extract(e.segs)[1]), e.segs)
                        ELSE files
            /\ UNCHANGED <<last_sra_id, emitted, walk, suspended>>
    /\ UNCHANGED <<pipeVars, aggVars>>

\* the loop body for any other member: neither branch is taken
ReadOther(e) ==
    /\ walk = "running" /\ suspended = "no"
    /\ Len(archive) < MaxEntries
    /\ ~e.isdir
    /\ ~EndsWithXml(e.segs)
    /\ archive' = Append(archive, e)
    /\ UNCHANGED <<files, last_sra_id, emitted, walk, suspended>>
    /\ UNCHANGED <<pipeVars, aggVars>>

\* mutant of EndOfStream: the open bundle is not flushed after the loop
EndOfStream_NoFlush ==
    /\ walk = "running" /\ suspended = "no"
    /\ walk' = "done"
    /\ UNCHANGED <<archive, files, last_sra_id, emitted, suspended>>
    /\ UNCHANGED <<pipeVars, aggVars>>

\* the archive is exhausted: the statement after the loop, up to the yield
\* of line 99 if the open bundle is not empty (the generator is then
\* suspended there, inside the `with`), and to the end of the generator if
\* it is
EndOfStream ==
    /\ walk = "running" /\ suspended = "no"
    /\ IF Truthy(files)
       THEN /\ emitted' = Append(emitted, <<last_sra_id, files>>)
            /\ suspended' = "line 99"
            /\ UNCHANGED walk
       ELSE /\ walk' = "done"
            /\ UNCHANGED <<emitted, suspended>>
    /\ UNCHANGED <<archive, files, last_sra_id>>
    /\ UNCHANGED <<pipeVars, aggVars>>

\* the consumer asks for the next pair: the generator resumes after the
\* yield of line 99, leaves the `with` and ends (StopIteration)
ResumeEnd ==
    /\ walk = "running" /\ suspended = "line 99"
    /\ walk' = "done"
    /\ suspended' = "no"
    /\ UNCHANGED <<archive, files, last_sra_id, emitted>>
    /\ UNCHANGED <<pipeVars, aggVars>>

\* the first pair is asked for and the archive cannot be opened: the assert
\* of line 76 fails (there is no local dump), or open() or tarfile.open
\* raises at line 80 (the dump is missing, or is no gzipped tar archive).
\* The exception leaves the generator with nothing read and nothing yielded.
FailToOpen ==
    /\ walk = "running" /\ suspended = "no"
    /\ archive = <<>>
    /\ walk' = "aborted"
    /\ UNCHANGED <<archive, files, last_sra_id, emitted, suspended>>
    /\ UNCHANGED <<pipeVars, aggVars>>

\* the consumer closes the generator.  While it holds a pair, GeneratorExit
\* is raised at the yield, the `with` of line 80 is left, and the walk ends
\* there, the locals as they were at the yield.  Before it has asked for the
\* first pair, the generator has not run and ends with nothing read.
CloseWalk ==
    /\ walk = "running"
    /\ suspended # "no" \/ archive = <<>>
    /\ walk' = "closed"
    /\ UNCHANGED <<archive, files, last_sra_id, emitted, suspended>>
    /\ UNCHANGED <<pipeVars, aggVars>>

\* iter_sra has been called and has read nothing yet
WalkStart ==
    /\ archive = <<>>
    /\ files = <<>>
    /\ last_sra_id = None
    /\ emitted = <<>>
    /\ walk = "running"
    /\ suspended = "no"

\* iterparse_sra has been called and has taken nothing from iter_sra yet
PipeStart ==
    /\ groups = <<>>
    /\ parses = <<>>
    /\ records = <<>>
    /\ pipe = "running"
    /\ handle = "unopened"

\* no extractor is running and aggregate_results has not been called
AggIdle ==
    /\ tables = <<>>
    /\ added = <<>>
    /\ thresholds = [min_samples |-> DefaultMinSamples, min_count |-> DefaultMinCount]
    /\ aggregated = None
    /\ permuted = <<>> /\ pending = <<>> /\ permuted_summary = None
    /\ extractor = "none" /\ seen = <<>> /\ outcome = "idle"

WalkInit == WalkStart /\ PipeStart /\ AggIdle

WalkNext ==
    \/ FailToOpen
    \/ \E e \in DirEntries : ReadDir(e)
    \/ ResumeDir
    \/ \E e \in FileEntries : ReadXml(e)
    \/ \E e \in FileEntries : ReadOther(e)
    \/ EndOfStream
    \/ ResumeEnd
    \/ CloseWalk

\* the archive walk alone
SpecWalk == WalkInit /\ [][WalkNext]_vars

-----------------------------------------------------------------------------
(* What the archive holds, read off the history of the stream *)

\* the spellings of the six document-type suffixes that occur in the model
KnownSuffixSpellings == {"study", "Study", "sample", "SAMPLE", "experiment", "run"}

\* an XML member
IsXmlMember(e) == ~e.isdir /\ Len(e.segs) >= 2 /\ e.segs[Len(e.segs)] = "xml"

\* an XML member whose document type is one of the six known ones
IsRecognizedXml(e) == IsXmlMember(e) /\ e.segs[Len(e.segs) - 1] \in KnownSuffixSpellings

\* the document type such a member is stored under
DocTypeOf(e) ==
    LET s == e.segs[Len(e.segs) - 1]
    IN  CASE s \in {"study", "Study"} -> "study"
          [] s \in {"sample", "SAMPLE"} -> "sample"
          [] OTHER -> s

\* the position of the first directory member after position i (Len(a) + 1 if none)
NextDir(a, i) ==
    IF \E j \in (i + 1)..Len(a) : a[j].isdir
    THEN CHOOSE j \in (i + 1)..Len(a) :
            a[j].isdir /\ \A k \in (i + 1)..(j - 1) : ~a[k].isdir
    ELSE Len(a) + 1

\* the positions of the members that lie in the directory at position i
MembersOf(a, i) == (i + 1)..(NextDir(a, i) - 1)

\* the directory at position i holds at least one recognized XML member
HasFiles(a, i) == \E j \in MembersOf(a, i) : IsRecognizedXml(a[j])

\* what the bundle of the directory at position i is to hold: its id and, for
\* each document type present, the last member of that type
BundleOf(a, i) ==
    LET types == {DocTypeOf(a[j]) : j \in {k \in MembersOf(a, i) : IsRecognizedXml(a[k])}}
        lastOf(t) == CHOOSE j \in MembersOf(a, i) :
                        /\ IsRecognizedXml(a[j]) /\ DocTypeOf(a[j]) = t
                        /\ \A k \in MembersOf(a, i) :
                              IsRecognizedXml(a[k]) /\ DocTypeOf(a[k]) = t => k <= j
    IN  <<Some(a[i].name), {<<t, a[lastOf(t)].segs>> : t \in types}>>

\* the bundles of the directories of `a` that hold files, in archive order;
\* with closedOnly, only of the directories that a later directory closes
RECURSIVE GroupsFrom(_, _, _)
GroupsFrom(a, i, closedOnly) ==
    IF i > Len(a) THEN <<>>
    ELSE (IF a[i].isdir /\ HasFiles(a, i) /\ (closedOnly => NextDir(a, i) <= Len(a))
          THEN <<BundleOf(a, i)>> ELSE <<>>)
         \o GroupsFrom(a, i + 1, closedOnly)

\* the pairs yielded so far: each id with the set of its bundle's items
EmittedGroups == [k \in 1..Len(emitted) |->
                    <<emitted[k][1], {emitted[k][2][i] : i \in 1..Len(emitted[k][2])}>>]

LastEntry == archive[Len(archive)]

-----------------------------------------------------------------------------
(* Claims about the archive walk *)

\* C1: the walk yields exactly one pair for every directory that holds at
\* least one recognized XML member, in archive order: while it reads
\* members, the pairs yielded are those of the directories a later directory
\* has closed, and once the stream has ended (the walk is at the yield of
\* line 99, was closed there, or is done) they are those of all
\* directories, the last open one included.
C1_OnePairPerGroupInOrder ==
    /\ (walk \in {"running", "closed"} /\ suspended # "line 99")
          => EmittedGroups = GroupsFrom(archive, 1, TRUE)
    /\ (walk = "done" \/ (walk \in {"running", "closed"} /\ suspended = "line 99"))
          => EmittedGroups = GroupsFrom(archive, 1, FALSE)

\* a finished walk of two groups with an empty directory between them, the
\* second group flushed by the end of the stream
C1_Witness ==
    /\ walk = "done"
    /\ Len(emitted) = 2
    /\ ~LastEntry.isdir
    /\ \E i \in 1..Len(archive) : archive[i].isdir /\ ~HasFiles(archive, i)

\* C2: no empty bundle is ever yielded, and no pair is yielded for a
\* directory without stored files: there are never more pairs than
\* directories that hold a recognized XML member.
C2_NoEmptyBundle ==
    /\ \A k \in 1..Len(emitted) : emitted[k][2] # <<>>
    /\ Len(emitted) <= Cardinality({i \in 1..Len(archive) :
                                       archive[i].isdir /\ HasFiles(archive, i)})

\* a finished walk with two consecutive empty directories, an empty directory
\* at the end of the stream, and one group with files
C2_Witness ==
    /\ walk = "done"
    /\ Len(emitted) = 1
    /\ LastEntry.isdir
    /\ \E i \in 1..(Len(archive) - 1) :
          /\ archive[i].isdir /\ archive[i + 1].isdir
          /\ ~HasFiles(archive, i)

\* C3: any file member whose parent directory is not the open group (a file
\* before any directory included) aborts the walk.
C3_AnyFileOutsideGroupAborts ==
    (archive # <<>> /\ ~LastEntry.isdir /\ Some(LastEntry.parent) # last_sra_id)
        => walk = "aborted"

\* the step reads an XML member whose suffix is none of the six types
ReadsUnknownXml ==
    /\ archive' # archive
    /\ IsXmlMember(archive'[Len(archive')])
    /\ ~IsRecognizedXml(archive'[Len(archive')])

\* C4: an XML member with an unknown suffix is skipped: the bundle, the open
\* group and the pairs yielded are unchanged and the walk goes on.  The member
\* lies in the directory of the open group; one that lies elsewhere is the
\* structural error of C3, raised before the suffix is looked at.
C4_UnknownSuffixSkipped ==
    [][(ReadsUnknownXml /\ Some(archive'[Len(archive')].parent) = last_sra_id)
          => /\ files' = files /\ emitted' = emitted
             /\ last_sra_id' = last_sra_id /\ walk' = "running"]_vars

\* an unknown XML member was read between two recognized members of a group,
\* and the finished walk yielded the group with both
C4_Witness ==
    /\ walk = "done"
    /\ Len(emitted) = 1 /\ Len(emitted[1][2]) = 2
    /\ \E i \in 2..(Len(archive) - 1) :
          /\ IsXmlMember(archive[i]) /\ ~IsRecognizedXml(archive[i])
          /\ IsRecognizedXml(archive[i - 1]) /\ IsRecognizedXml(archive[i + 1])

-----------------------------------------------------------------------------
(* Frequency tables: collections.Counter, and the dict of Counters `data`. *)
(* The keys of a Counter are values that may be None.                      *)

\* mutant of CounterInc: a key counted again moves to the end
CounterInc_MoveToEnd(c, k) ==
    IF DictHas(c, k)
    THEN Append(SelectSeq(c, LAMBDA kv : kv[1] # k), <<k, DictGet(c, k) + 1>>)
    ELSE Append(c, <<k, 1>>)

\* `c[k] += 1`
CounterInc(c, k) ==
    IF DictHas(c, k) THEN DictSet(c, k, DictGet(c, k) + 1) ELSE Append(c, <<k, 1>>)

\* sum(c.values())
RECURSIVE SumCounts(_)
SumCounts(c) == IF c = <<>> THEN 0 ELSE c[1][2] + SumCounts(Tail(c))

\* max(c.values()), for a Counter that is not empty
MaxCount(c) ==
    CHOOSE m \in {c[i][2] : i \in 1..Len(c)} : \A i \in 1..Len(c) : c[i][2] <= m

\* `data[field][key] += 1`, and `data.setdefault(field, Counter())[key] += 1`
\* for a field that may be new
DataInc(data, field, key) ==
    DictSet(data, field,
            CounterInc(IF DictHas(data, field) THEN DictGet(data, field) ELSE <<>>, key))

\* {k: Counter() for k in fields}
EmptyTables(fields) == [i \in 1..Len(fields) |-> <<fields[i], <<>>>>]

-----------------------------------------------------------------------------
(* SRAFileParser.parse_study_xml.  A document is the sequence of its STUDY *)
(* elements; an element gives, for each path that is read, the text found  *)
(* or None.                                                                *)

StudyFields == <<"SRP_ID", "bioproject", "title", "study_type", "abstract">>

\* the statements run for one STUDY element
StudyElemInto(data, el) ==
    LET study_type == IF el.study_type # None THEN el.study_type ELSE Some("")
        d1 == DataInc(data, "SRP_ID", el.primary_id)
        d2 == DataInc(d1, "bioproject", el.bioproject)
        d3 == DataInc(d2, "title", el.title)
        d4 == DataInc(d3, "study_type", study_type)
    IN  DataInc(d4, "abstract", el.abstract)

RECURSIVE FoldStudy(_, _)
FoldStudy(data, elems) ==
    IF elems = <<>> THEN data
    ELSE FoldStudy(StudyElemInto(data, Head(elems)), Tail(elems))

parse_study_xml(doc) == FoldStudy(EmptyTables(StudyFields), doc)

-----------------------------------------------------------------------------
(* SRAFileParser.parse_sample_xml.  A SAMPLE element gives its title and   *)
(* scientific name (text or None) and its SAMPLE_ATTRIBUTES: None, or the  *)
(* sequence of attributes, each a tag and the texts of its value nodes.    *)

\* ' '.join(v.text for v in value if v.text)
JoinValues(values) ==
    LET kept == SelectSeq(values, LAMBDA v : v # None /\ v # Some(""))
    IN  Join([i \in 1..Len(kept) |-> kept[i][1]], " ")

\* the dict comprehension over the attributes: a repeated tag keeps its
\* first position and its last value
RECURSIVE AttributesDict(_, _)
AttributesDict(acc, attrs) ==
    IF attrs = <<>> THEN acc
    ELSE AttributesDict(DictSet(acc, Head(attrs).tag, JoinValues(Head(attrs).values)),
                        Tail(attrs))

\* `for k, v in attributes.items(): data.setdefault(k, Counter())[v] += 1`
RECURSIVE CountAttributes(_, _)
CountAttributes(data, attributes) ==
    IF attributes = <<>> THEN data
    ELSE CountAttributes(DataInc(data, Head(attributes)[1], Some(Head(attributes)[2])),
                         Tail(attributes))

\* the statements run for one SAMPLE element
SampleElemInto(data, el) ==
    LET title == el.title
        species == IF el.species = None \/ el.species = Some("") THEN "NA"
                   ELSE el.species[1]
        attributes == IF el.attrs # None THEN AttributesDict(<<>>, el.attrs[1]) ELSE <<>>
        d1 == DataInc(data, "species", Some(species))
        d2 == IF title # None THEN DataInc(d1, "title", title) ELSE d1
    IN  CountAttributes(d2, attributes)

RECURSIVE FoldSample(_, _)
FoldSample(data, elems) ==
    IF elems = <<>> THEN data
    ELSE FoldSample(SampleElemInto(data, Head(elems)), Tail(elems))

parse_sample_xml(doc) == FoldSample(EmptyTables(<<"title", "species">>), doc)

-----------------------------------------------------------------------------
(* SRAFileParser.parse_experiment_xml.  An EXPERIMENT element gives the    *)
(* texts of its string fields, its LIBRARY_LAYOUT (None, or the tags of    *)
(* its children) and its PLATFORM (None, or its children, each a tag and   *)
(* the text of INSTRUMENT_MODEL).  The result is [ok |-> TRUE, data] or     *)
(* [ok |-> FALSE, error]: the exception that leaves the function.           *)

ExperimentFields ==
    <<"title", "design_description", "library_name", "library_strategy",
      "library_source", "library_selection", "library_layout",
      "platform_technology", "platform_instrument">>

\* mutant of ExperimentElemError: of several children of PLATFORM the first
\* is taken
ExperimentElemError_PicksFirst(el) ==
    IF el.layout = None THEN Some("TypeError")
    ELSE IF el.platform = None THEN None
    ELSE IF Len(el.platform[1]) = 0 THEN Some("IndexError")
    ELSE None

\* the exception one EXPERIMENT element raises, None if it raises none
ExperimentElemError(el) ==
    IF el.layout = None
    THEN Some("TypeError")       \* line 234 iterates over find(...), which is None
    ELSE IF el.platform = None THEN None
    ELSE IF Len(el.platform[1]) > 1 THEN Some("ValueError")
    ELSE IF Len(el.platform[1]) = 0 THEN Some("IndexError")   \* platform_elem[0]
    ELSE None

\* `if v is not None: data[field][v] += 1`
IncIfPresent(data, field, v) == IF v # None THEN DataInc(data, field, v) ELSE data

\* the statements run for one EXPERIMENT element that raises nothing
ExperimentElemInto(data, el) ==
    LET layout == Some(Join(el.layout[1], "|"))
        d1 == IncIfPresent(data, "title", el.title)
        d2 == IncIfPresent(d1, "design_description", el.design_descr)
        d3 == IncIfPresent(d2, "library_name", el.library_name)
        d4 == IncIfPresent(d3, "library_strategy", el.library_strategy)
        d5 == IncIfPresent(d4, "library_source", el.library_source)
        d6 == IncIfPresent(d5, "library_selection", el.library_selection)
        d7 == IncIfPresent(d6, "library_layout", layout)
    IN  IF el.platform = None THEN d7
        ELSE DataInc(DataInc(d7, "platform_technology", Some(el.platform[1][1].tag)),
                     "platform_instrument", el.platform[1][1].instrument)

RECURSIVE FoldExperiment(_, _)
FoldExperiment(data, elems) ==
    IF elems = <<>> THEN [ok |-> TRUE, data |-> data, error |-> ""]
    ELSE IF ExperimentElemError(Head(elems)) # None
    THEN [ok |-> FALSE, data |-> <<>>, error |-> ExperimentElemError(Head(elems))[1]]
    ELSE FoldExperiment(ExperimentElemInto(data, Head(elems)), Tail(elems))

parse_experiment_xml(doc) == FoldExperiment(EmptyTables(ExperimentFields), doc)

-----------------------------------------------------------------------------
(* SRAFileParser.aggregate_results.  `data` is a dict of Counters; None    *)
(* (no experiment document) and the empty dict are both <<>>, and the      *)
(* function returns {} for both.                                           *)

IdentifierFields == {"SRP_ID", "bioproject", "title"}

\* "|".join(map(str, count_dict.keys()))
RenderKeys(c) == Join([i \in 1..Len(c) |-> Str(c[i][1])], "|")

\* "|".join(f"{value}(N={count})" for value, count in count_dict.items())
RenderCounts(c) ==
    Join([i \in 1..Len(c) |-> Str(c[i][1]) \o "(N=" \o ToString(c[i][2]) \o ")"], "|")

\* mutant of Suppressed: the count of the first value for the largest count
Suppressed_FirstCount(c, min_samples, min_count) ==
    c[1][2] < min_count /\ Len(c) > min_samples

\* mutant of Suppressed: `<=` for `<`
Suppressed_OrEqual(c, min_samples, min_count) ==
    MaxCount(c) <= min_count /\ Len(c) > min_samples

\* the test of the second `elif`: the field is skipped
Suppressed(c, min_samples, min_count) ==
    MaxCount(c) < min_count /\ Len(c) > min_samples

\* mutant of AggregateField: no branch for the identifier-like fields
AggregateField_NoIdentifiers(summary, attr, c, min_samples, min_count) ==
    IF c = <<>> THEN summary
    ELSE IF Suppressed(c, min_samples, min_count) THEN summary
    ELSE DictSet(summary, attr, RenderCounts(c))

\* the body of the loop for one field
AggregateField(summary, attr, c, min_samples, min_count) ==
    IF c = <<>> THEN summary
    ELSE IF attr \in IdentifierFields THEN DictSet(summary, attr, RenderKeys(c))
    ELSE IF Suppressed(c, min_samples, min_count) THEN summary
    ELSE DictSet(summary, attr, RenderCounts(c))

RECURSIVE AggregateFrom(_, _, _, _)
AggregateFrom(summary, items, min_samples, min_count) ==
    IF items = <<>> THEN summary
    ELSE AggregateFrom(
            AggregateField(summary, Head(items)[1], Head(items)[2], min_samples, min_count),
            Tail(items), min_samples, min_count)

aggregate_results(data, min_samples, min_count) ==
    AggregateFrom(<<>>, data, min_samples, min_count)

-----------------------------------------------------------------------------
(* SRAFileParser.format_study_data *)

\* the longest metadata string: the slices [:300]
MetadataMaxLen == 300

\* mutant of Truncate: the string is not cut
Truncate_Off(s, n) == s

\* Characters beyond U+FFFF.  A str of the code counts each as one character;
\* a string of the model holds it as two units, a lead unit and a trail unit.
\* Every lead unit and every trail unit that a string of the model can hold
\* occurs in these.
Supplementary ==
    "𰂁𰒂𰢃𰲄𱂅𱒆𱢇𱲈𲂉𲒊𲢋𲲌𳂍𳒎𳢏𳲐𴂑𴒒𴢓𴲔𵂕𵒖𵢗𵲘𶂙𶒚𶢛𶲜𷂝𷒞𷢟𷲠𸂡𸒢𸢣𸲤𹂥𹒦𹢧𹲨𺂩𺒪𺢫𺲬𻂭𻒮𻢯𻲰𼂱𼒲𼢳𼲴𽂵𽒶𽢷𽲸𾂹𾒺𾢻𾲼𿂽𿒾𿢿𿳀"
    \o "񀃁񀓂񀣃񀳄񁃅񁓆񁣇񁳈񂃉񂓊񂣋񂳌񃃍񃓎񃣏񃳐񄃑񄓒񄣓񄳔񅃕񅓖񅣗񅳘񆃙񆓚񆣛񆳜񇃝񇓞񇣟񇳠񈃡񈓢񈣣񈳤񉃥񉓦񉣧񉳨񊃩񊓪񊣫񊳬񋃭񋓮񋣯񋳰񌃱񌓲񌣳񌳴񍃵񍓶񍣷񍳸񎃹񎓺񎣻񎳼񏃽񏓾񏣿񏶀"
    \o "񰆁񰖂񰦃񰶄񱆅񱖆񱦇񱶈񲆉񲖊񲦋񲶌񳆍񳖎񳦏񳶐񴆑񴖒񴦓񴶔񵆕񵖖񵦗񵶘񶆙񶖚񶦛񶶜񷆝񷖞񷦟񷶠񸆡񸖢񸦣񸶤񹆥񹖦񹦧񹶨񺆩񺖪񺦫񺶬񻆭񻖮񻦯񻶰񼆱񼖲񼦳񼶴񽆵񽖶񽦷񽶸񾆹񾖺񾦻񾶼񿆽񿖾񿦿񿷀"
    \o "򀇁򀗂򀧃򀷄򁇅򁗆򁧇򁷈򂇉򂗊򂧋򂷌򃇍򃗎򃧏򃷐򄇑򄗒򄧓򄷔򅇕򅗖򅧗򅷘򆇙򆗚򆧛򆷜򇇝򇗞򇧟򇷠򈇡򈗢򈧣򈷤򉇥򉗦򉧧򉷨򊇩򊗪򊧫򊷬򋇭򋗮򋧯򋷰򌇱򌗲򌧳򌷴򍇵򍗶򍧷򍷸򎇹򎗺򎧻򎷼򏇽򏗾򏧿򏺀"
    \o "򰊁򰚂򰪃򰺄򱊅򱚆򱪇򱺈򲊉򲚊򲪋򲺌򳊍򳚎򳪏򳺐򴊑򴚒򴪓򴺔򵊕򵚖򵪗򵺘򶊙򶚚򶪛򶺜򷊝򷚞򷪟򷺠򸊡򸚢򸪣򸺤򹊥򹚦򹪧򹺨򺊩򺚪򺪫򺺬򻊭򻚮򻪯򻺰򼊱򼚲򼪳򼺴򽊵򽚶򽪷򽺸򾊹򾚺򾪻򾺼򿊽򿚾򿪿򿻀"
    \o "󀋁󀛂󀫃󀻄󁋅󁛆󁫇󁻈󂋉󂛊󂫋󂻌󃋍󃛎󃫏󃻐󄋑󄛒󄫓󄻔󅋕󅛖󅫗󅻘󆋙󆛚󆫛󆻜󇋝󇛞󇫟󇻠󈋡󈛢󈫣󈻤󉋥󉛦󉫧󉻨󊋩󊛪󊫫󊻬󋋭󋛮󋫯󋻰󌋱󌛲󌫳󌻴󍋵󍛶󍫷󍻸󎋹󎛺󎫻󎻼󏋽󏛾󏫿󏾀"
    \o "󰎁󰞂󰮃󰾄󱎅󱞆󱮇󱾈󲎉󲞊󲮋󲾌󳎍󳞎󳮏󳾐󴎑󴞒󴮓󴾔󵎕󵞖󵮗󵾘󶎙󶞚󶮛󶾜󷎝󷞞󷮟󷾠󸎡󸞢󸮣󸾤󹎥󹞦󹮧󹾨󺎩󺞪󺮫󺾬󻎭󻞮󻮯󻾰󼎱󼞲󼮳󼾴󽎵󽞶󽮷󽾸󾎹󾞺󾮻󾾼󿎽󿞾󿮿󿿀"
    \o "􀏁􀟂􀯃􀿄􁏅􁟆􁯇􁿈􂏉􂟊􂯋􂿌􃏍􃟎􃯏􃿐􄏑􄟒􄯓􄿔􅏕􅟖􅯗􅿘􆏙􆟚􆯛􆿜􇏝􇟞􇯟􇿠􈏡􈟢􈯣􈿤􉏥􉟦􉯧􉿨􊏩􊟪􊯫􊿬􋏭􋟮􋯯􋿰􌏱􌟲􌯳􌿴􍏵􍟶􍯷􍿸􎏹􎟺􎯻􎿼􏏽􏟾􏯿􏲀"

\* the trail units: the second unit of each character beyond U+FFFF
TrailUnits == {SubSeq(Supplementary, 2 * k, 2 * k) : k \in 1..(Len(Supplementary) \div 2)}

\* len(s): the number of characters, a character beyond U+FFFF counted once
StrLen(s) == Len(s) - Cardinality({i \in 1..Len(s) : SubSeq(s, i, i) \in TrailUnits})

\* s[:n]: the first n characters of s, and s itself if it has no more.  A
\* string of at most n units has at most n characters; a longer one is cut
\* after the unit that ends its n-th character.
Truncate(s, n) ==
    IF Len(s) <= n \/ StrLen(s) <= n THEN s
    ELSE LET cut == CHOOSE p \in n..Len(s) :
                        /\ StrLen(SubSeq(s, 1, p)) = n
                        /\ SubSeq(s, p + 1, p + 1) \notin TrailUnits
         IN  SubSeq(s, 1, cut)

\* d.get(k, default), d.pop(k, default): the value returned
DictGetOr(d, k, default) == IF DictHas(d, k) THEN DictGet(d, k) ELSE default

\* [f"{k}: {v}" for k, v in info.items()]
Lines(info) == [i \in 1..Len(info) |-> info[i][1] \o ": " \o info[i][2]]

\* mutant of format_study_data: the lines of the experiment come before
\* those of the sample
format_study_data_ExperimentSecond(sra_id, study_info, sample_info, experiment_info) ==
    LET bioproject == DictGetOr(study_info, "bioproject", "")
        srp_id == DictGetOr(study_info, "SRP_ID", "")
        rest == DictPop(DictPop(study_info, "bioproject"), "SRP_ID")
        species == Lower(DictGetOr(sample_info, "species", ""))
        text == Join(Lines(rest) \o Lines(experiment_info) \o Lines(sample_info), "\n")
    IN  [text |-> text,
         metadata |-> [sra_id |-> sra_id,
                       bioproject |-> Truncate(bioproject, MetadataMaxLen),
                       srp_id |-> Truncate(srp_id, MetadataMaxLen),
                       species |-> Truncate(species, MetadataMaxLen)]]

\* mutant of format_study_data: the title is popped from the study summary too
format_study_data_PopsTitle(sra_id, study_info, sample_info, experiment_info) ==
    LET bioproject == DictGetOr(study_info, "bioproject", "")
        srp_id == DictGetOr(study_info, "SRP_ID", "")
        rest == DictPop(DictPop(DictPop(study_info, "bioproject"), "SRP_ID"), "title")
        species == Lower(DictGetOr(sample_info, "species", ""))
        text == Join(Lines(rest) \o Lines(sample_info) \o Lines(experiment_info), "\n")
    IN  [text |-> text,
         metadata |-> [sra_id |-> sra_id,
                       bioproject |-> Truncate(bioproject, MetadataMaxLen),
                       srp_id |-> Truncate(srp_id, MetadataMaxLen),
                       species |-> Truncate(species, MetadataMaxLen)]]

format_study_data(sra_id, study_info, sample_info, experiment_info) ==
    LET bioproject == DictGetOr(study_info, "bioproject", "")
        srp_id == DictGetOr(study_info, "SRP_ID", "")
        rest == DictPop(DictPop(study_info, "bioproject"), "SRP_ID")
        species == Lower(DictGetOr(sample_info, "species", ""))
        text == Join(Lines(rest) \o Lines(sample_info) \o Lines(experiment_info), "\n")
    IN  [text |-> text,
         metadata |-> [sra_id |-> sra_id,
                       bioproject |-> Truncate(bioproject, MetadataMaxLen),
                       srp_id |-> Truncate(srp_id, MetadataMaxLen),
                       species |-> Truncate(species, MetadataMaxLen)]]

-----------------------------------------------------------------------------
(* The documents and bundles the pipeline is fed *)

\* the most groups iterparse_sra takes from iter_sra
MaxGroups == 2

StudyElem(id, bp, t) ==
    [primary_id |-> id, bioproject |-> bp, title |-> t, abstract |-> None,
     study_type |-> Some("Other")]

StudyDocs == { <<StudyElem(Some("SRP000001"), Some("PRJNA1"), Some("T"))>> }

SampleElem(sp, attrs) == [title |-> None, species |-> sp, attrs |-> attrs]

Attr(t, v) == [tag |-> t, values |-> <<Some(v)>>]

\* the sample document of two "Homo sapiens" samples, of liver and of skin
TissueSampleDoc ==
    <<SampleElem(Some("Homo sapiens"), Some(<<Attr("tissue", "liver")>>)),
      SampleElem(Some("Homo sapiens"), Some(<<Attr("tissue", "skin")>>))>>

SampleDocs ==
    { <<>>,
      <<SampleElem(Some("Homo sapiens"), None)>>,
      TissueSampleDoc,
      <<SampleElem(Some("homo sapiens"), None), SampleElem(Some("homo sapiens"), None)>>,
      <<SampleElem(Some("Rattus norvegicus"), None), SampleElem(None, None)>>,
      <<SampleElem(Some("Rattus norvegicus"), None), SampleElem(Some("Mus musculus"), None)>> }

ExperimentElem(layout, platform) ==
    [title |-> Some("e1"), design_descr |-> None, library_name |-> None,
     library_strategy |-> Some("RNA-Seq"), library_source |-> None,
     library_selection |-> None, layout |-> layout, platform |-> platform]

Technology(t, m) == [tag |-> t, instrument |-> Some(m)]

ExperimentDocs ==
    { <<ExperimentElem(Some(<<"PAIRED">>), Some(<<Technology("ILLUMINA", "HiSeq")>>))>>,
      \* a PLATFORM with two children
      <<ExperimentElem(Some(<<"PAIRED">>),
                       Some(<<Technology("ILLUMINA", "HiSeq"), Technology("LS454", "GS")>>))>>,
      \* no LIBRARY_LAYOUT element
      <<ExperimentElem(None, Some(<<Technology("ILLUMINA", "HiSeq")>>))>> }

\* a document that iterparse_sra never reads
RunDoc == <<>>

\* a document that may be missing: None, or Some(d) for d in docs
Optional(docs) == {None} \cup {Some(d) : d \in docs}

\* the dict `files` with the documents given (each None or Some document);
\* a bundle with none of the three holds a run document
Bundle(st, sa, ex) ==
    LET b == (IF st # None THEN <<<<"study", st[1]>>>> ELSE <<>>)
             \o (IF sa # None THEN <<<<"sample", sa[1]>>>> ELSE <<>>)
             \o (IF ex # None THEN <<<<"experiment", ex[1]>>>> ELSE <<>>)
    IN  IF b = <<>> THEN <<<<"run", RunDoc>>>> ELSE b

\* s repeated n times
RECURSIVE Repeat(_, _)
Repeat(s, n) ==
    IF n = 0 THEN ""
    ELSE IF n = 1 THEN s
    ELSE Repeat(s, n \div 2) \o Repeat(s, n - n \div 2)

\* a study document whose BioProject id is longer than the metadata may be
LongStudyDoc == <<StudyElem(Some("SRP000009"), Some(Repeat("PRJNA", 61)), Some("T"))>>

\* a study document whose ids end in two characters beyond U+FFFF: the
\* accession has 300 characters (302 units), the BioProject id 301 (303 units)
SupplementaryStudyDoc ==
    <<StudyElem(Some(Repeat("S", MetadataMaxLen - 2) \o "𰂀𰂁"),
                Some(Repeat("B", MetadataMaxLen - 1) \o "𰂀𰂁"),
                Some("T"))>>

\* a sample document whose attributes are tagged like fields of the study
NamesakeSampleDoc ==
    <<SampleElem(Some("Homo sapiens"), Some(<<Attr("SRP_ID", "x")>>)),
      SampleElem(Some("Homo sapiens"), Some(<<Attr("bioproject", "y")>>))>>

\* a sample document of one sample that has an attribute tagged "species"
SpeciesTagSampleDoc ==
    <<SampleElem(Some("Homo sapiens"), Some(<<Attr("species", "human")>>))>>

\* a sample document of one sample of each of n + 1 species
ManySpeciesSampleDoc(n) ==
    <<SampleElem(Some("Homo sapiens"), None)>>
        \o [k \in 1..n |-> SampleElem(Some("sp" \o ToString(k)), None)]

\* a sample document of two samples, the first of a species with a name
\* longer than the metadata may be
LongSpeciesSampleDoc ==
    <<SampleElem(Some(Repeat("L", MetadataMaxLen + 1)), None),
      SampleElem(Some("Homo sapiens"), None)>>

\* the bundles iter_sra may yield: never empty
Bundles ==
    {Bundle(st, sa, ex) : st \in Optional(StudyDocs),
                          sa \in Optional(SampleDocs),
                          ex \in Optional(ExperimentDocs)}
    \cup {Bundle(Some(LongStudyDoc), Some(TissueSampleDoc), None)}
    \cup {Bundle(Some(SupplementaryStudyDoc), Some(TissueSampleDoc), None)}
    \cup {Bundle(Some(st), Some(NamesakeSampleDoc), None) : st \in StudyDocs}
    \cup {Bundle(Some(st), Some(sa), None) :
              st \in StudyDocs,
              sa \in {SpeciesTagSampleDoc, ManySpeciesSampleDoc(DefaultMinSamples),
                      LongSpeciesSampleDoc}}

\* the directory name of the n-th group
GroupName(n) == "SRP00000" \o ToString(n)

-----------------------------------------------------------------------------
(* SRAFileParser.iterparse_sra *)

KeptSpecies == <<"Homo sapiens", "Mus musculus">>

\* mutant of Incomplete: `and` for `or`
Incomplete_And(fs) == ~DictHas(fs, "study") /\ ~DictHas(fs, "sample")

\* `"study" not in files or "sample" not in files`
Incomplete(fs) == ~DictHas(fs, "study") \/ ~DictHas(fs, "sample")

\* `sum(species.values()) <= 1`
TooFewSamples(species) == SumCounts(species) <= 1

\* mutant of NoKeptSpecies: the names are compared in lower case
NoKeptSpecies_AnyCase(species) ==
    ~\E i \in 1..Len(KeptSpecies) : \E j \in 1..Len(species) :
        Lower(Str(species[j][1])) = Lower(KeptSpecies[i])

\* `not any(s in species for s in ["Homo sapiens", "Mus musculus"])`
NoKeptSpecies(species) ==
    ~\E i \in 1..Len(KeptSpecies) : DictHas(species, Some(KeptSpecies[i]))

\* One pass of the loop body for the pair (sra_id, fs): what it ends in
\* ("continue" at line 111, 121 or 124, "raise", or "yield"), the documents
\* it parsed, and the record or the exception.
LoopBody(sra_id, fs) ==
    LET none == [text |-> "", metadata |-> <<>>]
        out(k, w, p, e, r) == [kind |-> k, at |-> w, parsed |-> p, error |-> e, record |-> r]
    IN
    IF Incomplete(fs) THEN out("continue", 111, <<>>, "", none)
    ELSE IF ~DictHas(fs, "study") THEN out("raise", 113, <<>>, "KeyError", none)
    ELSE IF ~DictHas(fs, "sample") THEN out("raise", 114, <<"study">>, "KeyError", none)
    ELSE
    LET study_info == parse_study_xml(DictGet(fs, "study"))
        sample_info == parse_sample_xml(DictGet(fs, "sample"))
        has_exp == DictHas(fs, "experiment")
        exp == IF has_exp THEN parse_experiment_xml(DictGet(fs, "experiment"))
               ELSE [ok |-> TRUE, data |-> None, error |-> ""]
        parsed == <<"study", "sample">> \o (IF has_exp THEN <<"experiment">> ELSE <<>>)
        species == DictGet(sample_info, "species")
    IN  IF ~exp.ok THEN out("raise", 115, parsed, exp.error, none)
        ELSE IF TooFewSamples(species) THEN out("continue", 121, parsed, "", none)
        ELSE IF NoKeptSpecies(species) THEN out("continue", 124, parsed, "", none)
        ELSE out("yield", 126, parsed, "",
                 format_study_data(
                    sra_id,
                    aggregate_results(study_info, DefaultMinSamples, DefaultMinCount),
                    aggregate_results(sample_info, DefaultMinSamples, DefaultMinCount),
                    aggregate_results(exp.data, DefaultMinSamples, DefaultMinCount)))

\* the loop body for each group number and each bundle (and for the group
\* after the last one that is taken)
LoopResults ==
    [n \in 1..(MaxGroups + 1) |-> [fs \in Bundles |-> LoopBody(GroupName(n), fs)]]

\* the loop body for the pair iter_sra yields next
ThisPass(fs) == LoopResults[Len(groups) + 1][fs]

\* the pair iter_sra yields next is (GroupName, fs)
Takes(fs) ==
    /\ pipe = "running"
    /\ Len(groups) < MaxGroups
    /\ groups' = Append(groups, <<GroupName(Len(groups) + 1), fs>>)
    /\ parses' = parses \o [i \in 1..Len(ThisPass(fs).parsed) |->
                              <<Len(groups) + 1, ThisPass(fs).parsed[i]>>]
    /\ UNCHANGED <<walkVars, aggVars>>

\* the group lacks its study or its sample document: `continue`; the
\* archive, opened for the first pair, stays open while the loop goes on
SkipIncomplete(fs) ==
    /\ Takes(fs)
    /\ ThisPass(fs).kind = "continue"
    /\ ThisPass(fs).at = 111
    /\ handle' = "open"
    /\ UNCHANGED <<records, pipe>>

\* an extractor raises: the exception leaves iterparse_sra.  Unwinding drops
\* the iterator of the loop, the suspended iter_sra is finalized at once and
\* its `with` of line 80 closes the archive.
RaiseInParse(fs) ==
    /\ Takes(fs)
    /\ ThisPass(fs).kind = "raise"
    /\ pipe' = "failed"
    /\ handle' = "closed"
    /\ UNCHANGED records

\* at most one sample: `continue`
RejectFewSamples(fs) ==
    /\ Takes(fs)
    /\ ThisPass(fs).kind = "continue"
    /\ ThisPass(fs).at = 121
    /\ handle' = "open"
    /\ UNCHANGED <<records, pipe>>

\* neither human nor mouse: `continue`
RejectSpecies(fs) ==
    /\ Takes(fs)
    /\ ThisPass(fs).kind = "continue"
    /\ ThisPass(fs).at = 124
    /\ handle' = "open"
    /\ UNCHANGED <<records, pipe>>

\* the group passes: its record is yielded
YieldRecord(fs) ==
    /\ Takes(fs)
    /\ ThisPass(fs).kind = "yield"
    /\ records' = Append(records, ThisPass(fs).record)
    /\ handle' = "open"
    /\ UNCHANGED pipe

\* iter_sra raises when it is asked for the first pair, before it has an
\* archive: the AssertionError of line 76, or the exception of open() or
\* tarfile.open at line 80.  The exception leaves iterparse_sra at line 105;
\* no group is taken and no archive was opened.
WalkFailsToOpen ==
    /\ pipe = "running"
    /\ handle = "unopened"
    /\ pipe' = "failed"
    /\ UNCHANGED <<groups, parses, records, handle>>
    /\ UNCHANGED <<walkVars, aggVars>>

\* iter_sra raises when it is asked for the next pair, the archive open: the
\* AssertionError of line 92 for an XML member outside the open group.  The
\* exception leaves the `with` of line 80, which closes the archive, and
\* then iterparse_sra at line 105; no group is taken.
WalkRaises ==
    /\ pipe = "running"
    /\ pipe' = "failed"
    /\ handle' = "closed"
    /\ UNCHANGED <<groups, parses, records>>
    /\ UNCHANGED <<walkVars, aggVars>>

\* iter_sra is exhausted: iterparse_sra returns
Exhausted ==
    /\ pipe = "running"
    /\ pipe' = "done"
    /\ handle' = "closed"
    /\ UNCHANGED <<groups, parses, records>>
    /\ UNCHANGED <<walkVars, aggVars>>

\* the consumer has control: iterparse_sra has not been started, or is
\* suspended at the `yield` of line 126
Suspended ==
    \/ groups = <<>>
    \/ /\ groups # <<>>
       /\ LoopResults[Len(groups)][groups[Len(groups)][2]].kind = "yield"

\* the consumer asks for no more records and keeps the generator (it broke
\* out of a loop over a generator it has a name for, say).  No code runs:
\* iterparse_sra stays suspended at line 126 and iter_sra at its own yield,
\* inside the `with` of line 80, so the archive stays as it is.
Abandon ==
    /\ pipe = "running"
    /\ Suspended
    /\ pipe' = "abandoned"
    /\ UNCHANGED <<groups, parses, records, handle>>
    /\ UNCHANGED <<walkVars, aggVars>>

\* the consumer closes the generator, or drops its last reference to it, at
\* once or after it has kept it for a while.  GeneratorExit leaves the loop,
\* iter_sra is finalized in its turn at its `yield`, and its `with`
\* statement closes the archive.
Stop ==
    /\ pipe \in {"running", "abandoned"}
    /\ Suspended
    /\ pipe' = "stopped"
    /\ handle' = IF handle = "open" THEN "closed" ELSE handle
    /\ UNCHANGED <<groups, parses, records>>
    /\ UNCHANGED <<walkVars, aggVars>>

\* the records a run to the end yields for the pairs gs, from pair number i
\* on: the loop ends at the first pass that raises
RECURSIVE RunFrom(_, _, _)
RunFrom(gs, i, out) ==
    IF i > Len(gs) THEN out
    ELSE LET r == LoopResults[i][gs[i][2]]
         IN  IF r.kind = "raise" THEN out
             ELSE RunFrom(gs, i + 1, IF r.kind = "yield" THEN Append(out, r.record) ELSE out)

\* list(iterparse_sra()) for an archive whose pairs are gs, as far as it gets
FullRun(gs) == RunFrom(gs, 1, <<>>)

PipeNext ==
    \/ \E fs \in Bundles : SkipIncomplete(fs)
    \/ \E fs \in Bundles : RaiseInParse(fs)
    \/ \E fs \in Bundles : RejectFewSamples(fs)
    \/ \E fs \in Bundles : RejectSpecies(fs)
    \/ \E fs \in Bundles : YieldRecord(fs)
    \/ WalkFailsToOpen
    \/ WalkRaises
    \/ Exhausted
    \/ Abandon
    \/ Stop

\* iterparse_sra over the pairs of iter_sra
PipeInit == WalkStart /\ PipeStart /\ AggIdle

SpecPipe == PipeInit /\ [][PipeNext]_vars

-----------------------------------------------------------------------------
(* Claims about the filter of iterparse_sra *)

\* the bundle holds a document of type t
HasDoc(fs, t) == \E i \in 1..Len(fs) : fs[i][1] = t

\* the species frequency table of every bundle that holds a sample document
SpeciesTables ==
    [fs \in {b \in Bundles : HasDoc(b, "sample")} |->
        DictGet(parse_sample_xml(DictGet(fs, "sample")), "species")]

\* the species frequency table of a bundle that holds a sample document
SpeciesTable(fs) == SpeciesTables[fs]

\* the step takes a group from iter_sra
TookGroup == Len(groups') = Len(groups) + 1

\* the group the step takes: its name and its bundle
NewName == groups'[Len(groups')][1]

NewBundle == groups'[Len(groups')][2]

\* the step yields one record, for the group it takes
YieldsNewRecord ==
    /\ Len(records') = Len(records) + 1
    /\ SubSeq(records', 1, Len(records)) = records
    /\ records'[Len(records')].metadata.sra_id = NewName

\* group number i has a record among those yielded
HasRecord(i) == \E k \in 1..Len(records) : records[k].metadata.sra_id = groups[i][1]

\* some EXPERIMENT element of the bundle's experiment document has a
\* PLATFORM with more than one child
AmbiguousPlatform(fs) ==
    /\ HasDoc(fs, "experiment")
    /\ \E i \in 1..Len(DictGet(fs, "experiment")) :
          LET el == DictGet(fs, "experiment")[i]
          IN  el.platform # None /\ Len(el.platform[1]) > 1

\* C5: a group whose bundle lacks the study or the sample document yields
\* no record and raises nothing, none of its documents is parsed, and the
\* pipeline stays ready for the next group.
C5_IncompleteGroupSkipped ==
    [][(TookGroup /\ (~HasDoc(NewBundle, "study") \/ ~HasDoc(NewBundle, "sample")))
          => /\ records' = records
             /\ parses' = parses
             /\ pipe' = "running"]_vars

\* a group without sample document whose experiment document has an
\* ambiguous PLATFORM was skipped, and the group after it yielded its record
C5_Witness ==
    /\ Len(groups) = 2
    /\ ~HasDoc(groups[1][2], "sample")
    /\ HasDoc(groups[1][2], "study")
    /\ AmbiguousPlatform(groups[1][2])
    /\ Len(records) = 1
    /\ records[1].metadata.sra_id = groups[2][1]
    /\ \A k \in 1..Len(parses) : parses[k][1] = 2

\* C6: a group whose species table has a total count <= 1 yields no record,
\* even for "Homo sapiens"; a group with study and sample documents whose
\* species table is two occurrences of "Homo sapiens" yields a record.  The
\* fatal error that the ambiguous PLATFORM of an experiment document is to
\* raise is not held against the claim.
C6_SpeciesCountBoundary ==
    [][TookGroup =>
          /\ (HasDoc(NewBundle, "sample") /\ SumCounts(SpeciesTable(NewBundle)) <= 1)
                => records' = records
          /\ (/\ HasDoc(NewBundle, "study") /\ HasDoc(NewBundle, "sample")
              /\ SpeciesTable(NewBundle) = <<<<Some("Homo sapiens"), 2>>>>
              /\ ~AmbiguousPlatform(NewBundle))
                => YieldsNewRecord]_vars

\* C7: a record is yielded for a group only if "Homo sapiens" or
\* "Mus musculus", spelled exactly so, is a key of the species table of its
\* sample document; a group whose species keys hold neither has no record.
C7_OnlyHumanOrMouse ==
    \A i \in 1..Len(groups) :
        HasRecord(i) =>
            /\ HasDoc(groups[i][2], "sample")
            /\ \E j \in 1..Len(SpeciesTable(groups[i][2])) :
                  SpeciesTable(groups[i][2])[j][1] \in
                      {Some("Homo sapiens"), Some("Mus musculus")}

\* a complete group of two "homo sapiens" (lower case) samples got no
\* record, and a group with a "Mus musculus" sample among others got one
C7_Witness ==
    /\ Len(groups) = 2
    /\ HasDoc(groups[1][2], "study") /\ HasDoc(groups[1][2], "sample")
    /\ SpeciesTable(groups[1][2]) = <<<<Some("homo sapiens"), 2>>>>
    /\ ~HasDoc(groups[1][2], "experiment")
    /\ ~HasRecord(1)
    /\ HasRecord(2)
    /\ DictHas(SpeciesTable(groups[2][2]), Some("Mus musculus"))
    /\ ~DictHas(SpeciesTable(groups[2][2]), Some("Homo sapiens"))

-----------------------------------------------------------------------------
(* An extractor filling its tables, then aggregate_results on them *)

\* the most occurrences counted into the tables before they are aggregated
MaxAdds == 4

\* the table-sets the three extractors start from
TableSetKinds == {"study", "sample", "experiment"}

InitialTables(kind) ==
    CASE kind = "study" -> EmptyTables(StudyFields)
      [] kind = "sample" -> EmptyTables(<<"title", "species">>)
      [] kind = "experiment" -> EmptyTables(ExperimentFields)

\* the fields counted into: identifier-like ones and another one, per extractor
FilledFields(kind) ==
    CASE kind = "study" -> {"SRP_ID", "bioproject", "abstract"}
      [] kind = "sample" -> {"title", "tissue"}        \* "tissue": an attribute tag
      [] kind = "experiment" -> {"title", "library_strategy"}

\* the values counted: parse_study_xml counts a text it did not find as None
FilledValues(kind) ==
    IF kind = "study" THEN {None, Some("a"), Some("b")}
    ELSE {Some("a"), Some("b"), Some("c")}

\* the arguments min_samples, min_count the aggregator is called with
ThresholdChoices ==
    { [min_samples |-> 1, min_count |-> 2],
      [min_samples |-> 2, min_count |-> 2],
      [min_samples |-> 1, min_count |-> 3] }

\* `data[field][value] += 1` (lines 156-160, 190-194, 250-258)
AddValue(field, value) ==
    /\ aggregated = None
    /\ Len(added) < MaxAdds
    /\ field \in FilledFields(extractor)
    /\ value \in FilledValues(extractor)
    /\ tables' = DataInc(tables, field, value)
    /\ added' = Append(added, <<field, value>>)
    /\ UNCHANGED <<thresholds, aggregated, orderVars, extractVars>>
    /\ UNCHANGED <<walkVars, pipeVars>>

\* `self.aggregate_results(data, min_samples, min_count)` on the tables
Aggregate ==
    /\ aggregated = None
    /\ aggregated' = Some(aggregate_results(tables, thresholds.min_samples,
                                            thresholds.min_count))
    /\ UNCHANGED <<tables, added, thresholds, orderVars, extractVars>>
    /\ UNCHANGED <<walkVars, pipeVars>>

AggInit ==
    /\ WalkStart /\ PipeStart
    /\ extractor \in TableSetKinds
    /\ tables = InitialTables(extractor)
    /\ added = <<>>
    /\ thresholds \in ThresholdChoices
    /\ aggregated = None
    /\ permuted = <<>> /\ pending = <<>> /\ permuted_summary = None
    /\ seen = <<>> /\ outcome = "idle"

AggNext ==
    \/ \E f \in UNION {FilledFields(k) : k \in TableSetKinds},
          v \in UNION {FilledValues(k) : k \in TableSetKinds} : AddValue(f, v)
    \/ Aggregate

\* the aggregator on tables filled one occurrence at a time
SpecAgg == AggInit /\ [][AggNext]_vars

-----------------------------------------------------------------------------
(* Claims about aggregate_results, stated on the occurrences counted *)

\* the values counted into field f, in the order they were counted
AddedTo(f) ==
    LET sel == SelectSeq(added, LAMBDA a : a[1] = f)
    IN  [i \in 1..Len(sel) |-> sel[i][2]]

\* the distinct values of a sequence, each at the place of its first occurrence
RECURSIVE FirstSeen(_)
FirstSeen(vs) ==
    IF vs = <<>> THEN <<>>
    ELSE LET before == FirstSeen(SubSeq(vs, 1, Len(vs) - 1))
             last == vs[Len(vs)]
         IN  IF \E i \in 1..Len(before) : before[i] = last THEN before
             ELSE Append(before, last)

\* how often v occurs in vs
Occurrences(vs, v) == Cardinality({i \in 1..Len(vs) : vs[i] = v})

\* the distinct values counted into f, and their counts
ValuesOf(f) == FirstSeen(AddedTo(f))

CountOf(f, v) == Occurrences(AddedTo(f), v)

\* the summary returned
Summary == aggregated[1]

\* the fields of the tables that are not identifier-like
OtherFields == DictKeySet(tables) \ {"SRP_ID", "bioproject", "title"}

\* the high-cardinality rule, on the occurrences counted into f
HighCardinality(f) ==
    /\ \A i \in 1..Len(ValuesOf(f)) : CountOf(f, ValuesOf(f)[i]) < thresholds.min_count
    /\ Len(ValuesOf(f)) > thresholds.min_samples

\* f has min_samples + 1 distinct values, each counted min_count - 1 times
\* but for `raised` of them, counted min_count times
AtBoundary(f, raised) ==
    /\ Len(ValuesOf(f)) = thresholds.min_samples + 1
    /\ Cardinality({i \in 1..Len(ValuesOf(f)) :
                       CountOf(f, ValuesOf(f)[i]) = thresholds.min_count}) = raised
    /\ Cardinality({i \in 1..Len(ValuesOf(f)) :
                       CountOf(f, ValuesOf(f)[i]) = thresholds.min_count - 1})
          = thresholds.min_samples + 1 - raised

\* C8: a non-identifier field with values is omitted from the summary if
\* and only if its largest count is below min_count and it has more than
\* min_samples distinct values; so with min_samples + 1 distinct values all
\* counted min_count - 1 times it is omitted, and with one of them counted
\* min_count times it appears.
C8_SuppressionBoundary ==
    aggregated # None =>
        \A f \in OtherFields :
            /\ AddedTo(f) # <<>> => (~DictHas(Summary, f) <=> HighCardinality(f))
            /\ AtBoundary(f, 0) => ~DictHas(Summary, f)
            /\ AtBoundary(f, 1) => DictHas(Summary, f)

\* a field with min_samples + 1 distinct values, each counted
\* min_count - 1 times, was omitted
C8_Witness ==
    /\ aggregated # None
    /\ \E f \in OtherFields : AddedTo(f) # <<>> /\ AtBoundary(f, 0) /\ ~DictHas(Summary, f)

\* C9: an identifier-like field (SRP_ID, bioproject, title) with values is
\* never omitted, whatever its counts, in the table-set of each extractor;
\* it is rendered as its distinct values joined by "|", without counts.
C9_IdentifiersKept ==
    aggregated # None =>
        \A f \in {"SRP_ID", "bioproject", "title"} :
            (DictHas(tables, f) /\ AddedTo(f) # <<>>) =>
                /\ DictHas(Summary, f)
                /\ DictGet(Summary, f) =
                      Join([i \in 1..Len(ValuesOf(f)) |-> Str(ValuesOf(f)[i])], "|")

\* an identifier-like field whose values meet the high-cardinality rule was
\* kept, next to another field that the rule removed
C9_Witness ==
    /\ aggregated # None
    /\ \E f \in {"SRP_ID", "bioproject", "title"} :
          /\ DictHas(tables, f) /\ AddedTo(f) # <<>>
          /\ HighCardinality(f)
          /\ DictHas(Summary, f)
    /\ \E g \in OtherFields : AddedTo(g) # <<>> /\ ~DictHas(Summary, g)

\* C10: a field with an empty table is absent from the summary, the summary
\* has no other fields than the tables, and a non-identifier field with
\* values that the high-cardinality rule does not remove is rendered as one
\* value(N=count) per distinct value, joined by "|", in the order in which
\* the values were first counted.
C10_RenderedInFirstSeenOrder ==
    aggregated # None =>
        /\ DictKeySet(Summary) \subseteq DictKeySet(tables)
        /\ \A f \in DictKeySet(tables) : AddedTo(f) = <<>> => ~DictHas(Summary, f)
        /\ \A f \in OtherFields :
              (AddedTo(f) # <<>> /\ ~HighCardinality(f)) =>
                  /\ DictHas(Summary, f)
                  /\ DictGet(Summary, f) =
                        Join([i \in 1..Len(ValuesOf(f)) |->
                                Str(ValuesOf(f)[i]) \o "(N="
                                    \o ToString(CountOf(f, ValuesOf(f)[i])) \o ")"], "|")

\* "b" was counted before "a" and once more after it: the field reads
\* b(N=2)|a(N=1), and the fields that stayed empty are absent
C10_Witness ==
    /\ aggregated # None
    /\ AddedTo("tissue") = <<Some("b"), Some("a"), Some("b")>>
    /\ DictGet(Summary, "tissue") = "b(N=2)|a(N=1)"
    /\ DictKeySet(Summary) = {"tissue"}

-----------------------------------------------------------------------------
(* Two sets of tables filled with the same occurrences in different orders, *)
(* then aggregate_results on both                                           *)

\* the most occurrences counted into each of the two sets of tables
MaxOccurrences == 3

\* `data[field][value] += 1` on the first set of tables
CountFirst(field, value) ==
    /\ aggregated = None
    /\ Len(added) < MaxOccurrences
    /\ field \in FilledFields(extractor)
    /\ value \in FilledValues(extractor)
    /\ tables' = DataInc(tables, field, value)
    /\ added' = Append(added, <<field, value>>)
    /\ pending' = Append(pending, <<field, value>>)
    /\ UNCHANGED <<thresholds, aggregated, permuted, permuted_summary, extractVars>>
    /\ UNCHANGED <<walkVars, pipeVars>>

\* `data[field][value] += 1` on the second set of tables, for any one of the
\* occurrences it has not counted yet
CountSecond(i) ==
    /\ i \in 1..Len(pending)
    /\ permuted' = DataInc(permuted, pending[i][1], pending[i][2])
    /\ pending' = SubSeq(pending, 1, i - 1) \o SubSeq(pending, i + 1, Len(pending))
    /\ UNCHANGED <<tables, added, thresholds, aggregated, permuted_summary, extractVars>>
    /\ UNCHANGED <<walkVars, pipeVars>>

\* `self.aggregate_results(data, min_samples, min_count)` on both sets, once
\* both hold the same occurrences
AggregateBoth ==
    /\ aggregated = None
    /\ pending = <<>>
    /\ aggregated' = Some(aggregate_results(tables, thresholds.min_samples,
                                            thresholds.min_count))
    /\ permuted_summary' = Some(aggregate_results(permuted, thresholds.min_samples,
                                                  thresholds.min_count))
    /\ UNCHANGED <<tables, added, thresholds, permuted, pending, extractVars>>
    /\ UNCHANGED <<walkVars, pipeVars>>

OrderInit ==
    /\ WalkStart /\ PipeStart
    /\ extractor \in TableSetKinds
    /\ tables = InitialTables(extractor) /\ permuted = InitialTables(extractor)
    /\ added = <<>> /\ pending = <<>>
    /\ thresholds \in ThresholdChoices
    /\ aggregated = None /\ permuted_summary = None
    /\ seen = <<>> /\ outcome = "idle"

OrderNext ==
    \/ \E f \in UNION {FilledFields(k) : k \in TableSetKinds},
          v \in UNION {FilledValues(k) : k \in TableSetKinds} : CountFirst(f, v)
    \/ \E i \in 1..MaxOccurrences : CountSecond(i)
    \/ AggregateBoth

\* the aggregator on two sets of tables that hold the same occurrences
SpecOrder == OrderInit /\ [][OrderNext]_vars

-----------------------------------------------------------------------------
(* Claim about the order in which occurrences are counted *)

\* s.split(sep), for a separator of one character
RECURSIVE Split(_, _)
Split(s, sep) ==
    IF \E i \in 1..Len(s) : SubSeq(s, i, i) = sep
    THEN LET i == CHOOSE j \in 1..Len(s) :
                    /\ SubSeq(s, j, j) = sep
                    /\ \A k \in 1..(j - 1) : SubSeq(s, k, k) # sep
         IN  <<SubSeq(s, 1, i - 1)>> \o Split(SubSeq(s, i + 1, Len(s)), sep)
    ELSE <<s>>

\* two sequences hold the same items, each as often
SameItems(xs, ys) ==
    /\ Len(xs) = Len(ys)
    /\ \A i \in 1..Len(xs) : Occurrences(xs, xs[i]) = Occurrences(ys, xs[i])

\* the table of field f, empty if the field is not there
TableOf(data, f) == IF DictHas(data, f) THEN DictGet(data, f) ELSE <<>>

\* C11: two tables filled with the same occurrences in different orders have
\* the same count for every value and as many distinct values; the
\* aggregator omits the field for both or keeps it for both, and the two
\* rendered strings hold the same "|"-joined items, in some order.
C11_OrderOnlyChangesOrder ==
    /\ pending = <<>> =>
          \A f \in DictKeySet(tables) \cup DictKeySet(permuted) :
              /\ {TableOf(tables, f)[i] : i \in 1..Len(TableOf(tables, f))}
                    = {TableOf(permuted, f)[i] : i \in 1..Len(TableOf(permuted, f))}
              /\ Len(TableOf(tables, f)) = Len(TableOf(permuted, f))
    /\ (aggregated # None /\ permuted_summary # None) =>
          \A f \in DictKeySet(tables) \cup DictKeySet(permuted) :
              /\ DictHas(aggregated[1], f) <=> DictHas(permuted_summary[1], f)
              /\ DictHas(aggregated[1], f) =>
                    SameItems(Split(DictGet(aggregated[1], f), "|"),
                              Split(DictGet(permuted_summary[1], f), "|"))

\* the same occurrences were counted in two orders that leave the values of
\* a field in different order: the field is kept for both and reads
\* differently, while another field is omitted for both
C11_Witness ==
    /\ aggregated # None /\ permuted_summary # None
    /\ \E f \in DictKeySet(tables) :
          /\ DictHas(aggregated[1], f)
          /\ DictGet(aggregated[1], f) # DictGet(permuted_summary[1], f)
          /\ \E i \in 1..Len(DictGet(tables, f)) : DictGet(tables, f)[i][2] > 1
    /\ Len(added) = MaxOccurrences

-----------------------------------------------------------------------------
(* Claims about the records of iterparse_sra *)

\* the lines of a text
TextLines(text) == Split(text, "\n")

\* the lines of every text the loop body can put in a record
RecordLines ==
    [t \in {LoopResults[n][fs].record.text : n \in 1..(MaxGroups + 1), fs \in Bundles} |->
        TextLines(t)]

\* s.startswith(prefix)
StartsWith(s, prefix) == Len(s) >= Len(prefix) /\ SubSeq(s, 1, Len(prefix)) = prefix

\* the number of the group that record number k was yielded for: the k-th
\* group whose pass of the loop ends in a yield
YieldingGroups == SelectSeq([i \in 1..Len(groups) |-> i],
                            LAMBDA i : LoopResults[i][groups[i][2]].kind = "yield")

\* the summary of the study document of every bundle that holds one, before
\* the formatter pops from it
StudySummaries ==
    [fs \in {b \in Bundles : HasDoc(b, "study")} |->
        aggregate_results(parse_study_xml(DictGet(fs, "study")),
                          DefaultMinSamples, DefaultMinCount)]

\* the summary of the study document of group i
StudySummary(i) == StudySummaries[groups[i][2]]

\* len() of the three cut fields of every record the loop body can build
MetadataLens ==
    [r \in {LoopResults[n][fs].record :
                n \in 1..(MaxGroups + 1),
                fs \in {b \in Bundles : LoopResults[1][b].kind = "yield"}} |->
        [f \in {"bioproject", "srp_id", "species"} |-> StrLen(r.metadata[f])]]

\* C12: every record has exactly the keys text and metadata; metadata has
\* exactly the keys sra_id, bioproject, srp_id and species; all are strings;
\* bioproject, srp_id and species are at most 300 characters long (the first
\* 300 of the summary's value); sra_id is the directory name of the group.
C12_RecordShape ==
    /\ Len(records) = Len(YieldingGroups)
    /\ \A k \in 1..Len(records) :
          LET r == records[k]
              i == YieldingGroups[k]
          IN  /\ DOMAIN r = {"text", "metadata"}
              /\ DOMAIN r.metadata = {"sra_id", "bioproject", "srp_id", "species"}
              /\ r.text \in STRING
              /\ \A f \in DOMAIN r.metadata : r.metadata[f] \in STRING
              /\ \A f \in {"bioproject", "srp_id", "species"} :
                    MetadataLens[r][f] <= MetadataMaxLen
              /\ StartsWith(DictGetOr(StudySummary(i), "bioproject", ""), r.metadata.bioproject)
              /\ StartsWith(DictGetOr(StudySummary(i), "SRP_ID", ""), r.metadata.srp_id)
              /\ r.metadata.sra_id = groups[i][1]

\* two records.  The first has a BioProject id of 305 characters cut to 300.
\* The second has ids that end in characters beyond U+FFFF: its BioProject
\* id of 301 characters is cut to 300 (which are 301 units: the cut does not
\* split the last character), and its accession of 300 characters (302
\* units) is kept whole.
C12_Witness ==
    /\ Len(records) = 2
    /\ Len(groups) = 2
    /\ groups[1][2] = Bundle(Some(LongStudyDoc), Some(TissueSampleDoc), None)
    /\ groups[2][2] = Bundle(Some(SupplementaryStudyDoc), Some(TissueSampleDoc), None)
    /\ Len(DictGet(StudySummary(1), "bioproject")) = MetadataMaxLen + 5
    /\ records[1].metadata.bioproject = Repeat("PRJNA", MetadataMaxLen \div 5)
    /\ StrLen(DictGet(StudySummary(2), "bioproject")) = MetadataMaxLen + 1
    /\ MetadataLens[records[2]].bioproject = MetadataMaxLen
    /\ Len(records[2].metadata.bioproject) = MetadataMaxLen + 1
    /\ records[2].metadata.srp_id = DictGet(StudySummary(2), "SRP_ID")
    /\ MetadataLens[records[2]].srp_id = MetadataMaxLen
    /\ Len(records[2].metadata.srp_id) = MetadataMaxLen + 2
    /\ records[2].metadata.sra_id = "SRP000002"

\* the text has the line
HasLine(text, line) == \E n \in 1..Len(TextLines(text)) : TextLines(text)[n] = line

\* the text has a line for the field: one that starts with "field:"
HasLineFor(text, field) ==
    \E n \in 1..Len(TextLines(text)) : StartsWith(TextLines(text)[n], field \o ":")

\* the archive of one group "SRP000001": a study document (accession
\* "SRP000001", BioProject id "PRJNA1", title "T") and a sample document of
\* two "Homo sapiens" samples, one of liver and one of skin
ScenarioBundle ==
    Bundle(Some(<<StudyElem(Some("SRP000001"), Some("PRJNA1"), Some("T"))>>),
           Some(TissueSampleDoc), None)

\* C13: for the archive of the one group "SRP000001" above, the one record
\* has the metadata {sra_id: "SRP000001", bioproject: "PRJNA1",
\* srp_id: "SRP000001", species: "homo sapiens"} and its text has the line
\* `tissue: liver(N=1)|skin(N=1)`.
C13_EndToEndScenario ==
    (pipe = "done" /\ groups = <<<<"SRP000001", ScenarioBundle>>>>) =>
        /\ Len(records) = 1
        /\ records[1].metadata = [sra_id |-> "SRP000001", bioproject |-> "PRJNA1",
                                  srp_id |-> "SRP000001", species |-> "homo sapiens"]
        /\ HasLine(records[1].text, "tissue: liver(N=1)|skin(N=1)")

\* C14: the text of a record has no `SRP_ID:` line and no `bioproject:`
\* line, whatever the study, sample and experiment summaries are.
C14_NoAccessionLines ==
    \A k \in 1..Len(records) :
        /\ ~HasLineFor(records[k].text, "SRP_ID")
        /\ ~HasLineFor(records[k].text, "bioproject")

\* C15 as stated: the text of a record has no `title:` line, and the title
\* is in metadata.
C15_NoTitleLine ==
    \A k \in 1..Len(records) :
        /\ ~HasLineFor(records[k].text, "title")
        /\ "title" \in DOMAIN records[k].metadata

\* C15, amended: the title stays in the text and is not in metadata.  The
\* record of a group whose study document has a STUDY element starts with
\* the line `title: ` and the titles joined by "|", and the keys of its
\* metadata are sra_id, bioproject, srp_id and species.
C15_TitleStaysInText ==
    /\ Len(records) = Len(YieldingGroups)
    /\ \A k \in 1..Len(records) :
          LET i == YieldingGroups[k]
          IN  /\ "title" \notin DOMAIN records[k].metadata
              /\ DictHas(StudySummary(i), "title") =>
                    RecordLines[records[k].text][1]
                        = "title: " \o DictGet(StudySummary(i), "title")

\* the record of a study titled "T" starts with the line `title: T`
C15_Witness ==
    /\ Len(records) = 1
    /\ TextLines(records[1].text)[1] = "title: T"
    /\ DictGet(StudySummary(YieldingGroups[1]), "title") = "T"

-----------------------------------------------------------------------------
(* Claims about errors and about stopping early *)

\* the experiment document of group i
ExperimentDocOf(i) == DictGet(groups[i][2], "experiment")

\* the extractor was called on the experiment document of group i
ParsedExperiment(i) == \E k \in 1..Len(parses) : parses[k] = <<i, "experiment">>

\* every EXPERIMENT element of the document has a LIBRARY_LAYOUT, and a
\* PLATFORM with a child if it has a PLATFORM
OtherwiseSound(doc) ==
    \A n \in 1..Len(doc) :
        /\ doc[n].layout # None
        /\ doc[n].platform # None => Len(doc[n].platform[1]) >= 1

\* C16: parse_experiment_xml raises on a document in which the PLATFORM of
\* some EXPERIMENT element has more than one child (a ValueError, if the
\* document is sound otherwise) and returns no tables; the group it was
\* called for has no record, and it is the last group the pipeline takes.
C16_AmbiguousPlatformIsFatal ==
    \A i \in 1..Len(groups) :
        AmbiguousPlatform(groups[i][2]) =>
            /\ ~parse_experiment_xml(ExperimentDocOf(i)).ok
            /\ parse_experiment_xml(ExperimentDocOf(i)).data = <<>>
            /\ OtherwiseSound(ExperimentDocOf(i)) =>
                  parse_experiment_xml(ExperimentDocOf(i)).error = "ValueError"
            /\ ParsedExperiment(i) =>
                  /\ pipe = "failed"
                  /\ i = Len(groups)
                  /\ ~HasRecord(i)
                  /\ Len(records) = Len(FullRun(SubSeq(groups, 1, i - 1)))

\* the first group yielded its record; the second, complete, had an
\* experiment document with a PLATFORM of two children: the pipeline failed
C16_Witness ==
    /\ Len(groups) = 2
    /\ pipe = "failed"
    /\ AmbiguousPlatform(groups[2][2])
    /\ ParsedExperiment(2)
    /\ HasRecord(1) /\ Len(records) = 1

\* C17: stopping after N records is safe.  Once the consumer has stopped
\* consuming, whether it closed the generator or only asks for no more
\* records, the records it has are the first N records of a run to the end,
\* for the archive read so far and for every archive that goes on with
\* another group; no later step alters them; and the archive is not open.
C17_EarlyStopIsSafe ==
    /\ [](pipe \in {"abandoned", "stopped"} =>
            /\ handle # "open"
            /\ records = FullRun(groups)
            /\ \A fs \in Bundles :
                  LET more == FullRun(Append(groups, <<GroupName(Len(groups) + 1), fs>>))
                  IN  /\ Len(more) >= Len(records)
                      /\ SubSeq(more, 1, Len(records)) = records)
    /\ [][(pipe \in {"abandoned", "stopped"}) => (records' = records)]_vars

-----------------------------------------------------------------------------
(* An extractor reading its document, one element at a time: the loop over  *)
(* ET.iterparse(file_obj, events=("end",)) of parse_study_xml,              *)
(* parse_sample_xml and parse_experiment_xml                                *)

\* the most STUDY, SAMPLE or EXPERIMENT elements of a document
MaxElems == 2

\* STUDY elements: each text that is read is there or not
StudyElems ==
    { [primary_id |-> id, bioproject |-> bp, title |-> t, abstract |-> ab,
       study_type |-> ty] :
          id \in {None, Some("SRP000001")}, bp \in {None, Some("PRJNA1")},
          t \in {None, Some("T")}, ab \in {None, Some("about")},
          ty \in {None, Some("Other")} }

\* SAMPLE elements: without attributes, with one, with two of different
\* tags, with two of the same tag
SampleElems ==
    { [title |-> t, species |-> sp, attrs |-> at] :
          t \in {None, Some("s1")},
          sp \in {None, Some("Homo sapiens")},
          at \in {None, Some(<<>>),
                  Some(<<Attr("tissue", "liver")>>),
                  Some(<<Attr("tissue", "liver"), Attr("age", "3")>>),
                  Some(<<Attr("tissue", "liver"), Attr("tissue", "skin")>>)} }

\* EXPERIMENT elements: with and without LIBRARY_LAYOUT; without PLATFORM,
\* and with a PLATFORM of no, one and two children
ExperimentElems ==
    { ExperimentElem(layout, platform) :
          layout \in {None, Some(<<"PAIRED">>)},
          platform \in {None, Some(<<>>),
                        Some(<<Technology("ILLUMINA", "HiSeq")>>),
                        Some(<<Technology("ILLUMINA", "HiSeq"), Technology("LS454", "GS")>>)} }

\* the extractor is in its loop, with room for another element
Reading(kind) ==
    /\ outcome = "reading"
    /\ extractor = kind
    /\ Len(seen) < MaxElems

\* parse_study_xml: the end of a STUDY element
EndStudy(el) ==
    /\ Reading("study")
    /\ seen' = Append(seen, el)
    /\ tables' = StudyElemInto(tables, el)
    /\ UNCHANGED <<added, thresholds, aggregated, orderVars, extractor, outcome>>
    /\ UNCHANGED <<walkVars, pipeVars>>

\* parse_sample_xml: the end of a SAMPLE element
EndSample(el) ==
    /\ Reading("sample")
    /\ seen' = Append(seen, el)
    /\ tables' = SampleElemInto(tables, el)
    /\ UNCHANGED <<added, thresholds, aggregated, orderVars, extractor, outcome>>
    /\ UNCHANGED <<walkVars, pipeVars>>

\* parse_experiment_xml: the end of an EXPERIMENT element; an exception
\* leaves the function before anything of the element is counted
EndExperiment(el) ==
    /\ Reading("experiment")
    /\ seen' = Append(seen, el)
    /\ IF ExperimentElemError(el) # None
       THEN /\ outcome' = ExperimentElemError(el)[1]
            /\ UNCHANGED tables
       ELSE /\ tables' = ExperimentElemInto(tables, el)
            /\ UNCHANGED outcome
    /\ UNCHANGED <<added, thresholds, aggregated, orderVars, extractor>>
    /\ UNCHANGED <<walkVars, pipeVars>>

\* the document is exhausted: `return data`
Return ==
    /\ outcome = "reading"
    /\ outcome' = "returned"
    /\ UNCHANGED <<tables, extractor, seen, added, thresholds, aggregated, orderVars>>
    /\ UNCHANGED <<walkVars, pipeVars>>

ExtractInit ==
    /\ WalkStart /\ PipeStart
    /\ extractor \in TableSetKinds
    /\ tables = InitialTables(extractor)
    /\ seen = <<>> /\ outcome = "reading"
    /\ added = <<>>
    /\ thresholds = [min_samples |-> DefaultMinSamples, min_count |-> DefaultMinCount]
    /\ aggregated = None
    /\ permuted = <<>> /\ pending = <<>> /\ permuted_summary = None

ExtractNext ==
    \/ \E el \in StudyElems : EndStudy(el)
    \/ \E el \in SampleElems : EndSample(el)
    \/ \E el \in ExperimentElems : EndExperiment(el)
    \/ Return

\* the three extractors, each on a document of up to MaxElems elements
SpecExtract == ExtractInit /\ [][ExtractNext]_vars

-----------------------------------------------------------------------------
(* Claims about the extractors *)

\* the extractor returned the tables of a document of the kind
Returned(kind) == outcome = "returned" /\ extractor = kind

\* the text of a field of a STUDY element, None if the element lacks it
StudyText(el, f) ==
    CASE f = "SRP_ID" -> el.primary_id
      [] f = "bioproject" -> el.bioproject
      [] f = "title" -> el.title
      [] f = "abstract" -> el.abstract
      [] f = "study_type" -> el.study_type

\* how many of the elements read have the field
StudiesWith(f) == Cardinality({n \in 1..Len(seen) : StudyText(seen[n], f) # None})

\* C18: a STUDY element that lacks the accession, the BioProject id, the
\* title or the abstract adds nothing to the table of that field: the table
\* has no key for the missing text (None), and counts as many occurrences as
\* there are elements with the field; a missing study type counts as "".
C18_MissingStudyFieldAddsNoKey ==
    Returned("study") =>
        /\ \A f \in {"SRP_ID", "bioproject", "title", "abstract"} :
              /\ ~DictHas(DictGet(tables, f), None)
              /\ SumCounts(DictGet(tables, f)) = StudiesWith(f)
        /\ SumCounts(DictGet(tables, "study_type")) = Len(seen)
        /\ StudiesWith("study_type") < Len(seen) => DictHas(DictGet(tables, "study_type"), Some(""))

\* the tags of the attributes of the SAMPLE elements read
TagsSeen ==
    UNION { {seen[n].attrs[1][a].tag : a \in 1..Len(seen[n].attrs[1])} :
              n \in {m \in 1..Len(seen) : seen[m].attrs # None} }

\* how many tag/value pairs of the SAMPLE elements read have the tag
PairsTagged(k) ==
    Cardinality({ <<n, a>> \in (1..Len(seen)) \X (1..2) :
                     /\ seen[n].attrs # None
                     /\ a <= Len(seen[n].attrs[1])
                     /\ seen[n].attrs[1][a].tag = k })

\* C19: in the tables an extractor returns every count is a positive
\* integer, and every occurrence of a value counts once: the counts of the
\* table of an attribute tag sum to the number of tag/value pairs with that
\* tag in the SAMPLE elements, also when a SAMPLE has the tag twice.
C19_EveryOccurrenceCounted ==
    outcome = "returned" =>
        /\ \A i \in 1..Len(tables) : \A j \in 1..Len(tables[i][2]) :
              tables[i][2][j][2] \in Nat \ {0}
        /\ extractor = "sample" =>
              /\ SumCounts(DictGet(tables, "species")) = Len(seen)
              /\ \A k \in TagsSeen :
                    /\ DictHas(tables, k)
                    /\ SumCounts(DictGet(tables, k)) = PairsTagged(k)

\* an exception left parse_experiment_xml
Raised == outcome \notin {"idle", "reading", "returned"}

\* C20: parse_experiment_xml raises only for a PLATFORM with more than one
\* child.  An EXPERIMENT element without LIBRARY_LAYOUT, or with a PLATFORM
\* without child, adds nothing to the tables library_layout,
\* platform_technology and platform_instrument, and the tables are returned.
C20_OnlyAmbiguityIsFatal ==
    /\ Raised =>
          /\ seen[Len(seen)].platform # None
          /\ Len(seen[Len(seen)].platform[1]) > 1
    /\ Returned("experiment") =>
          /\ SumCounts(DictGet(tables, "library_layout"))
                = Cardinality({n \in 1..Len(seen) : seen[n].layout # None})
          /\ SumCounts(DictGet(tables, "platform_technology"))
                = Cardinality({n \in 1..Len(seen) :
                                  /\ seen[n].platform # None
                                  /\ Len(seen[n].platform[1]) = 1})

-----------------------------------------------------------------------------
(* Claims about the text and the species of a record *)

\* the summary of the sample document of every bundle that holds one
SampleSummaries ==
    [fs \in {b \in Bundles : HasDoc(b, "sample")} |->
        aggregate_results(parse_sample_xml(DictGet(fs, "sample")),
                          DefaultMinSamples, DefaultMinCount)]

\* the summary of the sample document of group i
SampleSummary(i) == SampleSummaries[groups[i][2]]

\* the summary of the experiment document of every bundle, which the
\* extractor accepts; without such a document the summary is empty
ExperimentSummaries ==
    [fs \in Bundles |->
        IF HasDoc(fs, "experiment")
        THEN aggregate_results(parse_experiment_xml(DictGet(fs, "experiment")).data,
                               DefaultMinSamples, DefaultMinCount)
        ELSE <<>>]

\* the summary of the experiment document of group i
ExperimentSummary(i) == ExperimentSummaries[groups[i][2]]

\* the `field: value` lines of a summary, in the order of its fields, but
\* for the fields in `without`
FieldLines(summary, without) ==
    LET kept == SelectSeq(summary, LAMBDA kv : kv[1] \notin without)
    IN  [n \in 1..Len(kept) |-> kept[n][1] \o ": " \o kept[n][2]]

\* the three blocks of lines of every bundle with a study and a sample
\* document, joined by newlines
ThreeBlocks ==
    [fs \in {b \in Bundles : HasDoc(b, "study") /\ HasDoc(b, "sample")} |->
        Join(FieldLines(StudySummaries[fs], {"SRP_ID", "bioproject"})
                \o FieldLines(SampleSummaries[fs], {})
                \o FieldLines(ExperimentSummaries[fs], {}), "\n")]

\* the group has its study and sample documents and passes the two tests on
\* the species table
PassesFilter(fs) ==
    /\ HasDoc(fs, "study") /\ HasDoc(fs, "sample")
    /\ SumCounts(SpeciesTable(fs)) > 1
    /\ \/ DictHas(SpeciesTable(fs), Some("Homo sapiens"))
       \/ DictHas(SpeciesTable(fs), Some("Mus musculus"))

\* C21: the text of a record is its lines joined by newlines: a line
\* `field: value` for every field of the study summary but SRP_ID and
\* bioproject, then one for every field of the sample summary, then one for
\* every field of the experiment summary, each block in the order of its
\* summary.  A group without experiment document that passes the filter has
\* its record, of the first two blocks.
C21_TextIsThreeBlocks ==
    /\ Len(records) = Len(YieldingGroups)
    /\ \A k \in 1..Len(records) :
          LET i == YieldingGroups[k]
          IN  records[k].text = ThreeBlocks[groups[i][2]]
    /\ \A i \in 1..Len(groups) :
          (PassesFilter(groups[i][2]) /\ ~HasDoc(groups[i][2], "experiment")) =>
              /\ HasRecord(i)
              /\ ExperimentSummary(i) = <<>>

\* a record with the three blocks, of a group with an experiment document,
\* then a record of two blocks, of a group without
C21_Witness ==
    /\ Len(records) = 2 /\ Len(groups) = 2
    /\ HasDoc(groups[1][2], "experiment") /\ ~HasDoc(groups[2][2], "experiment")
    /\ records[1].text = "title: T\nstudy_type: Other(N=1)\nabstract: None(N=1)\n"
                         \o "species: Homo sapiens(N=2)\ntissue: liver(N=1)|skin(N=1)\n"
                         \o "title: e1\nlibrary_strategy: RNA-Seq(N=1)\n"
                         \o "library_layout: PAIRED(N=1)\n"
                         \o "platform_technology: ILLUMINA(N=1)\nplatform_instrument: HiSeq(N=1)"
    /\ records[2].text = "title: T\nstudy_type: Other(N=1)\nabstract: None(N=1)\n"
                         \o "species: Homo sapiens(N=2)\ntissue: liver(N=1)|skin(N=1)"

\* the extractor was called on the sample document of group i
ParsedSample(i) == \E k \in 1..Len(parses) : parses[k] = <<i, "sample">>

\* C22: the counts of the species table that parse_sample_xml returns sum
\* to the number of SAMPLE elements of the document, whatever the tags of
\* the attributes, "species" and "title" included; so every record comes
\* from a sample document of two SAMPLE elements or more.
C22_SpeciesCountsSamples ==
    \A i \in 1..Len(groups) :
        ParsedSample(i) =>
            /\ SumCounts(SpeciesTable(groups[i][2])) = Len(DictGet(groups[i][2], "sample"))
            /\ HasRecord(i) => Len(DictGet(groups[i][2], "sample")) >= 2

\* sub occurs in s
Contains(s, sub) ==
    \E n \in 1..(Len(s) - Len(sub) + 1) : SubSeq(s, n, n + Len(sub) - 1) = sub

\* C23: the species in the metadata of a record is not empty and holds
\* "homo sapiens" or "mus musculus": neither the high-cardinality rule of
\* the aggregator nor the cut to 300 characters takes the species of a
\* group that passed the filter.
C23_SpeciesSurvives ==
    \A k \in 1..Len(records) :
        /\ records[k].metadata.species # ""
        /\ \/ Contains(records[k].metadata.species, "homo sapiens")
           \/ Contains(records[k].metadata.species, "mus musculus")

-----------------------------------------------------------------------------

Init == WalkInit

Next == WalkNext

Spec == Init /\ [][Next]_vars

====
